---- MODULE Spec2Model ----
(***************************************************************************)
(* A model of the rust_exchange matching engine: the per-symbol order-book *)
(* ladder (src/orderbook/orderbook.rs), the HTTP handlers that drive it    *)
(* (src/api/routes.rs), the position store (src/positions.rs) and the      *)
(* market-data fan-out (src/api/ws.rs).                                    *)
(*                                                                         *)
(* routes.rs and the tests call OrderBook::add_order with an order type    *)
(* and a broadcast channel, and read maker_user_id / taker_user_id of a    *)
(* trade; orderbook.rs as present has the four-argument add_order that     *)
(* always builds a Limit order.  The matching loop, the status rule, the   *)
(* trade ring, the depth queries and the removal are modelled from         *)
(* orderbook.rs; the order type, the publication from inside add_order /   *)
(* remove_order and the user ids of a trade are modelled from the          *)
(* specification and kept in definitions of their own (crosses, rests,     *)
(* with_users, publish_cancel, CoSendTrade, CoSendUpdate).                 *)
(***************************************************************************)
EXTENDS Integers, Sequences, FiniteSets, TLC

\* ------------------------------------------------------------------ bounds
\* Number of orders ever submitted (ids 1..MaxOrders stand for Uuid::new_v4).
MaxOrders == 3
\* Submitted quantities (Qty = u64; a quantity of zero is accepted).
Qtys == {0, 1, 2, 3}
\* Submitted prices (Price = i64: zero and negative prices are accepted).
Prices == {-1, 0, 1}
\* The deeper specification: more orders over fewer prices and quantities.
DeepOrders == 4
DeepQtys == {1, 2}
DeepPrices == {0, 1}
Users == {"alice", "bob"}
\* The handler specification: concurrent requests, orders ever submitted,
\* and the prices and quantities they carry.
Tasks == {"t1", "t2"}
ApiOrders == 3
\* the orders that the requests of SpecSym submit
SymOrders == 2
ApiPrices == {1}
ApiQtys == {1, 2}
\* The order ids a cancel request names: the first order, and an id no order has.
CancelIds == {0, 1}
\* The session specification: connections, the capacity of the broadcast
\* channel (main.rs: broadcast::channel(1000)) scaled down, messages ever
\* published, frames a client sends on one connection, the symbols it names.
Sessions == {"s1", "s2"}
BusCapacity == 2
MaxPublished == 3
MaxFrames == 1
\* The frames the client of the one-connection specification sends.
SubFrames == 2
FrameSymbols == {"btcusdt", "XRPUSDT"}
\* The width of the integers that stand for i64 and u64.
IntBits == 4
\* The position specification: legs ever applied, and the prices and symbols
\* they carry.
MaxLegs == 3
LegPrices == {1, 2}
LegSymbols == {"BTCUSDT"}
\* The registry of main.rs.
Symbols == {"BTCUSDT", "ETHUSDT"}
\* The ladder the single-ladder specification drives.
LadderSym == "BTCUSDT"
\* The capacity of the trade ring (orderbook.rs: const MAX_TRADES: usize =
\* 1000) scaled down.
MAX_TRADES == 2

Sides == {"Buy", "Sell"}
OrderTypes == {"Limit", "Market"}

VARIABLES
    books,      \* symbol -> [bids, asks, orders, trades]: AppState.orderbooks
    next_id,    \* the next fresh order id
    bus,        \* every message handed to ws_channel.send, in order
    last,       \* history: the last ladder operation, its input and its result
    orig,       \* history: the submitted quantity of every resting order
    pc,         \* task -> the point its handler has reached
    req,        \* task -> the locals of its handler
    book_lock,  \* symbol -> [writer, readers]: the RwLock of SharedOrderBook
    pos_lock,   \* [writer, readers]: the RwLock of SharedPositions
    positions,  \* (user, symbol) -> [quantity, average_price]: AppState.positions
    committed,  \* history: symbol -> the book when its write guard was last dropped
    sessions,   \* session -> the locals of its handle_socket and what it wrote
    bus_closed, \* every Sender of ws_channel has been dropped
    applied,    \* history: the legs update_position has applied, counted and summed
    db,         \* AppState.db: Option<PgPool> and the rows of its tables
    ledger      \* history: the store as the ladder's trade order gives it, the legs due,
                \* what every order has had filled, and every successful cancel

api_vars == <<pc, req, book_lock, pos_lock, positions, committed>>
ws_vars == <<sessions, bus_closed>>
vars == <<books, next_id, bus, last, orig, api_vars, ws_vars, applied, db, ledger>>

\* ------------------------------------------------------------ collections
SetMin(S) == CHOOSE x \in S : \A y \in S : x <= y
SetMax(S) == CHOOSE x \in S : \A y \in S : x >= y

MapRemove(f, k) == [x \in DOMAIN f \ {k} |-> f[x]]
MapPut(f, k, v) == [x \in DOMAIN f \cup {k} |-> IF x = k THEN v ELSE f[x]]
EmptyMap == [x \in {} |-> 0]

RECURSIVE SumSeq(_)
SumSeq(s) == IF s = <<>> THEN 0 ELSE Head(s) + SumSeq(Tail(s))

RECURSIVE SumOver(_, _)
\* the sum of f[x] over x \in S
SumOver(f, S) ==
    IF S = {} THEN 0
    ELSE LET x == CHOOSE y \in S : TRUE IN f[x] + SumOver(f, S \ {x})

InSeq(x, s) == \E i \in 1..Len(s) : s[i] = x

\* F(v) with v evaluated once, however often F uses its argument
Eager(F(_), v) == CHOOSE y \in {F(x) : x \in {v}} : TRUE

\* ---------------------------------------------------------------- integers
\* Price and Position.quantity are i64, Qty is u64: two's-complement integers
\* of IntBits bits stand for them.  An operation that overflows panics in a
\* build with overflow checks and wraps in one without.
I64_MIN == -(2^(IntBits - 1))
I64_MAX == 2^(IntBits - 1) - 1
U64_MAX == 2^IntBits - 1

fits_i64(x) == I64_MIN <= x /\ x <= I64_MAX
fits_u64(x) == 0 <= x /\ x <= U64_MAX

\* what an i64 / u64 operation whose exact result is x leaves in a build
\* without overflow checks
wrap_i64(x) == ((x - I64_MIN) % (2^IntBits)) + I64_MIN
wrap_u64(x) == x % (2^IntBits)

\* -------------------------------------------------------------- the ladder
\* OrderBook::new
EmptyBook == [bids |-> EmptyMap, asks |-> EmptyMap, orders |-> EmptyMap, trades |-> <<>>]

\* OrderBook::best_bid / best_ask: Option<Price> as a set of at most one price
best_bid(book) == IF DOMAIN book.bids = {} THEN {} ELSE {SetMax(DOMAIN book.bids)}
best_ask(book) == IF DOMAIN book.asks = {} THEN {} ELSE {SetMin(DOMAIN book.asks)}

\* Mutant: the two tests in the wrong order, so that an order filled to zero
\* is reported PartiallyFilled.
update_order_status_swapped(original_qty, remaining_qty) ==
    IF remaining_qty < original_qty THEN "PartiallyFilled"
    ELSE IF remaining_qty = 0 THEN "Filled"
    ELSE "Pending"

\* OrderBook::update_order_status
update_order_status(original_qty, remaining_qty) ==
    IF remaining_qty = 0 THEN "Filled"
    ELSE IF remaining_qty < original_qty THEN "PartiallyFilled"
    ELSE "Pending"

\* Mutant: the two order ids in each other's place.
create_trade_swapped(maker_order_id, taker_order_id, price, qty) ==
    [maker_order_id |-> taker_order_id, taker_order_id |-> maker_order_id,
     price |-> price, quantity |-> qty]

\* OrderBook::create_trade (the trade's own id and timestamp are left out)
create_trade(maker_order_id, taker_order_id, price, qty) ==
    [maker_order_id |-> maker_order_id, taker_order_id |-> taker_order_id,
     price |-> price, quantity |-> qty]

\* Trade.maker_user_id / taker_user_id, which routes.rs reads: the maker's
\* user is the resting order's, the taker's the incoming order's.
with_users(trade, maker_user_id, taker_user_id) ==
    [maker_order_id |-> trade.maker_order_id, taker_order_id |-> trade.taker_order_id,
     maker_user_id |-> maker_user_id, taker_user_id |-> taker_user_id,
     price |-> trade.price, quantity |-> trade.quantity]

\* Mutant: a buy at the price of the best ask does not cross it.
buy_crosses_above(order_price, ask_price) == order_price > ask_price

\* match_buy_order: "if order.price < ask_price { break }"
buy_crosses(order_price, ask_price) == ~(order_price < ask_price)
\* Mutant: the price test of the sell loop left out.
sell_crosses_always(order_price, bid_price) == TRUE

\* match_sell_order: "if order.price > bid_price { break }"
sell_crosses(order_price, bid_price) == ~(order_price > bid_price)

\* The crossing condition with the order type: a Market order ignores its price.
crosses(order, level_price) ==
    \/ order.order_type = "Market"
    \/ IF order.side = "Buy" THEN buy_crosses(order.price, level_price)
                             ELSE sell_crosses(order.price, level_price)

\* "let match_qty = order.quantity.min(maker_order.quantity)"
match_quantity(taker_qty, maker_qty) == IF taker_qty < maker_qty THEN taker_qty ELSE maker_qty

\* Mutant: the maker's quantity is not decremented.
maker_remaining_unchanged(maker_qty, match_qty) == maker_qty

\* "updated_maker.quantity -= match_qty"
maker_remaining(maker_qty, match_qty) == maker_qty - match_qty

\* Mutant: an emptied level is left in the map.
keep_level_always(levels, price, queue) == MapPut(levels, price, queue)

\* "if queue.is_empty() { entry.remove() }": a level lives while its queue
\* holds an id
keep_level(levels, price, queue) ==
    IF queue = <<>> THEN MapRemove(levels, price) ELSE MapPut(levels, price, queue)

\* The body of one iteration of the matching loop once the best opposite
\* price level_price is known and crosses: m = [opp, orders, order, trades,
\* steps, original_qty], opp the opposite side's price levels.
fill_head(m, level_price) ==
    LET queue == m.opp[level_price] IN
    IF queue = <<>> THEN
        \* "Queue is empty, remove price level"
        [m EXCEPT !.opp = MapRemove(m.opp, level_price)]
    ELSE
    LET maker_order_id == Head(queue) IN
    IF maker_order_id \notin DOMAIN m.orders THEN
        \* "Order not found in HashMap": drop the invalid reference
        [m EXCEPT !.opp = keep_level(m.opp, level_price, Tail(queue))]
    ELSE
    LET maker_order == m.orders[maker_order_id]
        match_qty == match_quantity(m.order.quantity, maker_order.quantity)
        trade == with_users(create_trade(maker_order_id, m.order.id, level_price, match_qty),
                            maker_order.user_id, m.order.user_id)
        taker_qty == m.order.quantity - match_qty
        taker == [m.order EXCEPT !.quantity = taker_qty,
                                 !.status = update_order_status(m.original_qty, taker_qty)]
        maker_qty == maker_remaining(maker_order.quantity, match_qty)
        maker_original_qty == maker_qty + match_qty
        updated_maker == [maker_order EXCEPT
                            !.quantity = maker_qty,
                            !.status = update_order_status(maker_original_qty, maker_qty)]
        step == [taker |-> taker, maker |-> updated_maker, maker_before |-> maker_order.quantity,
                 taker_before |-> m.order.quantity, trade |-> trade]
    IN  [m EXCEPT
            !.order = taker,
            !.trades = Append(m.trades, trade),
            !.steps = Append(m.steps, step),
            !.orders = IF maker_qty = 0 THEN MapRemove(m.orders, maker_order_id)
                       ELSE MapPut(m.orders, maker_order_id, updated_maker),
            !.opp = IF maker_qty = 0 THEN keep_level(m.opp, level_price, Tail(queue))
                    ELSE m.opp]

RECURSIVE match_buy_order(_)
\* OrderBook::match_buy_order: asks from the lowest price up
match_buy_order(m) ==
    IF ~(m.order.quantity > 0) THEN m
    ELSE IF DOMAIN m.opp = {} THEN m
    ELSE LET ask_price == SetMin(DOMAIN m.opp) IN
         IF ~crosses(m.order, ask_price) THEN m
         ELSE Eager(match_buy_order, fill_head(m, ask_price))

RECURSIVE match_sell_order(_)
\* OrderBook::match_sell_order: bids from the highest price down
match_sell_order(m) ==
    IF ~(m.order.quantity > 0) THEN m
    ELSE IF DOMAIN m.opp = {} THEN m
    ELSE LET bid_price == SetMax(DOMAIN m.opp) IN
         IF ~crosses(m.order, bid_price) THEN m
         ELSE Eager(match_sell_order, fill_head(m, bid_price))

\* OrderBook::match_order: the book after matching, the trades, the steps and
\* the incoming order with its remaining quantity and status
match_order(book, order) ==
    LET m0 == [opp |-> IF order.side = "Buy" THEN book.asks ELSE book.bids,
               orders |-> book.orders, order |-> order, trades |-> <<>>,
               steps |-> <<>>, original_qty |-> order.quantity]
        matched(m) ==
            [book |-> [book EXCEPT
                         !.asks = IF order.side = "Buy" THEN m.opp ELSE book.asks,
                         !.bids = IF order.side = "Buy" THEN book.bids ELSE m.opp,
                         !.orders = m.orders],
             trades |-> m.trades, steps |-> m.steps, order |-> m.order]
    IN  IF order.side = "Buy" THEN Eager(matched, Eager(match_buy_order, m0))
                              ELSE Eager(matched, Eager(match_sell_order, m0))

RECURSIVE pop_front_while_over(_)
\* "while self.trades.len() > MAX_TRADES { self.trades.pop_front(); }"
pop_front_while_over(ring) ==
    IF Len(ring) > MAX_TRADES THEN pop_front_while_over(Tail(ring)) ELSE ring

\* Mutant: the newest trades are dropped, not the oldest.
store_trades_pop_back(ring, trades) ==
    LET all == ring \o trades IN
    IF Len(all) > MAX_TRADES THEN SubSeq(all, 1, MAX_TRADES) ELSE all

\* OrderBook::store_trades: push_back every trade, then pop the front while
\* the ring is over MAX_TRADES
store_trades(ring, trades) == pop_front_while_over(ring \o trades)

\* Mutant: the order rests also when nothing of it remains.
has_remainder_or_none(order) == order.quantity >= 0

\* Mutant: only an order that no maker touched counts as having a remainder.
has_remainder_if_untouched(order) == order.quantity > 0 /\ order.status = "Pending"

\* add_order: "if matched_order.quantity > 0"
has_remainder(order) == order.quantity > 0

\* Mutant: the remainder rests whatever the order type.
rests_any_type(order) == order.quantity > 0

\* Rest or drop: only a Limit order with a remainder rests.
rests(order) == order.order_type = "Limit" /\ has_remainder(order)

\* Mutant: the remainder joins the head of its level.
push_front(queue, order_id) == <<order_id>> \o queue

\* "entry(price).or_insert_with(VecDeque::new).push_back(order_id)"
push_back(queue, order_id) == Append(queue, order_id)

\* Mutant: the remainder is recorded and joins no queue.
insert_resting_record_only(book, order) ==
    [book EXCEPT !.orders = MapPut(book.orders, order.id, order)]

\* OrderBook::add_order's insertion of the remainder at the tail of its level
insert_resting(book, order) ==
    LET levels == IF order.side = "Buy" THEN book.bids ELSE book.asks
        queue == IF order.price \in DOMAIN levels THEN levels[order.price] ELSE <<>>
        put == MapPut(levels, order.price, push_back(queue, order.id))
    IN  [book EXCEPT
            !.orders = MapPut(book.orders, order.id, order),
            !.bids = IF order.side = "Buy" THEN put ELSE book.bids,
            !.asks = IF order.side = "Buy" THEN book.asks ELSE put]

\* add_order: the order as it is built, Pending with its full quantity
new_order(id, user_id, price, qty, side, order_type) ==
    [id |-> id, user_id |-> user_id, side |-> side, order_type |-> order_type,
     price |-> price, quantity |-> qty, status |-> "Pending"]

\* add_order: "let (trades, matched_order) = self.match_order(order);
\* self.store_trades(trades)"
match_and_store(book, order) ==
    LET stored(r) ==
            [r EXCEPT !.book = [r.book EXCEPT !.trades = store_trades(r.book.trades, r.trades)]]
    IN  Eager(stored, match_order(book, order))

\* add_order: the remainder rests at the tail of its level or is dropped
rest_or_drop(book, order) == IF rests(order) THEN insert_resting(book, order) ELSE book

\* OrderBook::add_order: build the order, match, store the trades, rest the
\* remainder.  Returns the book, the returned order, the trades and the steps.
add_order(book, id, user_id, price, qty, side, order_type) ==
    LET rested(r) == [book |-> rest_or_drop(r.book, r.order),
                      order |-> r.order, trades |-> r.trades, steps |-> r.steps]
    IN  Eager(rested, match_and_store(book, new_order(id, user_id, price, qty, side, order_type)))

\* OrderBook::get_order_by_id: Option<Order> as a set of at most one order
get_order_by_id(book, order_id) ==
    IF order_id \in DOMAIN book.orders THEN {book.orders[order_id]} ELSE {}

\* Mutant: the removal pops the head of the level, whichever order it is.
remove_order_pop_front(book, order_id) ==
    IF order_id \notin DOMAIN book.orders THEN [book |-> book, removed |-> {}]
    ELSE
    LET order == book.orders[order_id]
        levels == IF order.side = "Buy" THEN book.bids ELSE book.asks
        pruned ==
            IF order.price \in DOMAIN levels THEN
                keep_level(levels, order.price, Tail(levels[order.price]))
            ELSE levels
    IN  [book |-> [book EXCEPT
                     !.bids = IF order.side = "Buy" THEN pruned ELSE book.bids,
                     !.asks = IF order.side = "Buy" THEN book.asks ELSE pruned,
                     !.orders = MapRemove(book.orders, order_id)],
         removed |-> {order}]

\* OrderBook::remove_order: the book and the removed order (or none)
remove_order(book, order_id) ==
    IF order_id \notin DOMAIN book.orders THEN [book |-> book, removed |-> {}]
    ELSE
    LET order == book.orders[order_id]
        levels == IF order.side = "Buy" THEN book.bids ELSE book.asks
        pruned ==
            IF order.price \in DOMAIN levels THEN
                keep_level(levels, order.price,
                           SelectSeq(levels[order.price], LAMBDA oid : oid # order_id))
            ELSE levels
    IN  [book |-> [book EXCEPT
                     !.bids = IF order.side = "Buy" THEN pruned ELSE book.bids,
                     !.asks = IF order.side = "Buy" THEN book.asks ELSE pruned,
                     !.orders = MapRemove(book.orders, order_id)],
         removed |-> {order}]

RECURSIVE rev(_)
\* Iterator::rev over a deque: its elements from the back to the front
rev(s) == IF s = <<>> THEN <<>> ELSE <<s[Len(s)]>> \o rev(SubSeq(s, 1, Len(s) - 1))

\* Iterator::take: the first n elements, all of them if there are fewer
take(s, n) == IF n < Len(s) THEN SubSeq(s, 1, n) ELSE s

\* Mutant: the ring read from the front.
get_recent_trades_oldest(book, limit) == take(book.trades, limit)

\* OrderBook::get_recent_trades: "self.trades.iter().rev().take(limit)"
get_recent_trades(book, limit) == take(rev(book.trades), limit)

\* the exact sum of the remaining quantities of the orders of a level that
\* have a record
level_sum(book, queue) ==
    SumSeq([i \in 1..Len(queue) |->
              IF queue[i] \in DOMAIN book.orders THEN book.orders[queue[i]].quantity ELSE 0])

\* "let total_qty: Qty = level.iter().filter_map(..).map(..).sum()" where it
\* does not panic
level_total(book, queue) == wrap_u64(level_sum(book, queue))

\* the sum of some level passes u64::MAX: get_bids / get_asks panics in a
\* build with overflow checks
sum_overflows(book, levels) ==
    \E p \in DOMAIN levels : ~fits_u64(level_sum(book, levels[p]))

RECURSIVE Ascending(_)
\* the elements of a finite set of prices as an ascending sequence
Ascending(S) == IF S = {} THEN <<>> ELSE <<SetMin(S)>> \o Ascending(S \ {SetMin(S)})
RECURSIVE Descending(_)
Descending(S) == IF S = {} THEN <<>> ELSE <<SetMax(S)>> \o Descending(S \ {SetMax(S)})

\* OrderBook::get_bids: (price, total) pairs, highest price first
get_bids(book) ==
    LET ps == Descending(DOMAIN book.bids) IN
    [i \in 1..Len(ps) |-> <<ps[i], level_total(book, book.bids[ps[i]])>>]

\* OrderBook::get_asks: (price, total) pairs, lowest price first
get_asks(book) ==
    LET ps == Ascending(DOMAIN book.asks) IN
    [i \in 1..Len(ps) |-> <<ps[i], level_total(book, book.asks[ps[i]])>>]

\* ------------------------------------------------------------ publication
\* Mutant: the trades taken from the end of the slice.
trade_at_reversed(trades, i) == trades[Len(trades) + 1 - i]

\* ws.rs broadcast_trades: "for trade in trades", the i-th trade of the slice
trade_at(trades, i) == trades[i]

\* ws.rs broadcast_trades: the send of one Trade message
send_trade(channel, symbol, trade) ==
    Append(channel, [type |-> "Trade", symbol |-> symbol, trade |-> trade])

RECURSIVE broadcast_trades_from(_, _, _, _)
broadcast_trades_from(channel, symbol, trades, i) ==
    IF i > Len(trades) THEN channel
    ELSE broadcast_trades_from(send_trade(channel, symbol, trade_at(trades, i)),
                               symbol, trades, i + 1)

\* ws.rs broadcast_trades: one Trade message per trade, in the slice's order
broadcast_trades(channel, symbol, trades) == broadcast_trades_from(channel, symbol, trades, 1)

\* ws.rs broadcast_orderbook_update: the depth of the book as it is now
broadcast_orderbook_update(channel, symbol, book) ==
    Append(channel, [type |-> "OrderBookUpdate", symbol |-> symbol,
                     bids |-> get_bids(book), asks |-> get_asks(book)])

\* What remove_order sends when it is given the channel: one OrderBookUpdate
\* after a removal.
publish_cancel(channel, symbol, result) ==
    IF result.removed = {} THEN channel
    ELSE broadcast_orderbook_update(channel, symbol, result.book)

\* Mutant: a send waits until every open receiver has room for the message,
\* as a bounded queue does.
can_send_if_room(channel, receivers) ==
    \A s \in DOMAIN receivers :
        receivers[s].state = "open" => Len(channel) + 1 - receivers[s].cursor < BusCapacity

\* "let _ = ws_channel.send(..)": tokio's broadcast Sender::send is not
\* async; it stores the message, overwriting the oldest one when the buffer
\* is full, and returns at once, with an error that is dropped when there
\* is no receiver.  It never waits for a receiver.
can_send(channel, receivers) == TRUE

\* ---------------------------------------------------------------- positions
\* str::to_uppercase on the symbols a request can carry
to_uppercase(symbol) ==
    IF symbol = "btcusdt" THEN "BTCUSDT"
    ELSE IF symbol = "ethusdt" THEN "ETHUSDT"
    ELSE symbol

\* "trade_qty as i64": the bits of the u64 read as an i64
as_i64(trade_qty) == wrap_i64(trade_qty)

\* i64 division: the quotient truncated toward zero
trunc_div(a, b) ==
    LET abs(x) == IF x < 0 THEN -x ELSE x
        q == abs(a) \div abs(b)
    IN  IF (a < 0) = (b < 0) THEN q ELSE -q

\* positions::update_position: one trade leg applied to the store.  An i64
\* operation that overflows panics in a build with overflow checks and wraps
\* in one without; a panic leaves the store as it was.
update_position(store, user_id, symbol, side, trade_price, trade_qty, overflow_checks) ==
    LET key == <<user_id, to_uppercase(symbol)>>
        cast == as_i64(trade_qty)
        negated == IF side = "Buy" THEN cast ELSE -cast
        signed_qty == wrap_i64(negated)
        done(s) == [store |-> s, panicked |-> FALSE]
        panic == [store |-> store, panicked |-> TRUE]
    IN  IF overflow_checks /\ ~fits_i64(negated) THEN panic
        ELSE IF key \notin DOMAIN store THEN
            done(MapPut(store, key, [quantity |-> signed_qty, average_price |-> trade_price]))
        ELSE
        LET pos == store[key]
            old_qty == pos.quantity
            sum == old_qty + signed_qty
            new_qty == wrap_i64(sum)
        IN  IF overflow_checks /\ ~fits_i64(sum) THEN panic
            ELSE IF new_qty = 0 THEN done(MapRemove(store, key))
            ELSE IF (old_qty > 0 /\ signed_qty > 0) \/ (old_qty < 0 /\ signed_qty < 0) THEN
                LET old_cost == pos.average_price * old_qty
                    leg_cost == trade_price * signed_qty
                    cost == wrap_i64(old_cost) + wrap_i64(leg_cost)
                IN  IF overflow_checks
                       /\ ~(fits_i64(old_cost) /\ fits_i64(leg_cost) /\ fits_i64(cost)) THEN panic
                    \* i64::MIN / -1 panics in every build
                    ELSE IF wrap_i64(cost) = I64_MIN /\ new_qty = -1 THEN panic
                    ELSE done(MapPut(store, key,
                                     [quantity |-> new_qty,
                                      average_price |-> trunc_div(wrap_i64(cost), new_qty)]))
            ELSE done(MapPut(store, key,
                             [quantity |-> new_qty, average_price |-> pos.average_price]))

\* positions::get_positions: the user's positions, all of them or those of
\* the symbol of the filter (Option<&str> as a set of at most one symbol; the
\* HashMap's iteration order is not specified: a set)
get_positions(store, user_id, symbol_filter) ==
    LET symbol_upper == {to_uppercase(s) : s \in symbol_filter} IN
    {[user_id |-> k[1], symbol |-> k[2], quantity |-> store[k].quantity,
      average_price |-> store[k].average_price] :
        k \in {x \in DOMAIN store :
                 x[1] = user_id /\ (symbol_upper = {} \/ x[2] \in symbol_upper)}}

\* ------------------------------------------------------------------- locks
\* tokio::sync::RwLock: one writer or any number of readers
FreeLock == [writer |-> {}, readers |-> {}]

\* Mutant: a write guard handed out whoever holds the lock.
can_write_always(lock) == TRUE

\* "orderbook.write().await" / "store.write().await" returns once nobody
\* holds the lock
can_write(lock) == lock.writer = {} /\ lock.readers = {}

\* "orderbook.read().await" / "store.read().await" returns once no writer
\* holds the lock
can_read(lock) == lock.writer = {}

\* ------------------------------------------------------------------- state
NoOp == [op |-> "none"]

\* AppState.db of the test applications: "db: None"
NoDb == [present |-> FALSE, orders |-> EmptyMap, trades |-> <<>>, positions |-> EmptyMap]

\* AppState.db of main: "db: Some(pool)", on tables without rows
EmptyDb == [NoDb EXCEPT !.present = TRUE]

\* a connection that has not been upgraded yet
NoSession == [state |-> "none", subscribed_symbols |-> {}, cursor |-> 0, out |-> <<>>,
              frames |-> 0, reason |-> "none"]

NoLedger == [store |-> EmptyMap, due |-> 0, filled |-> EmptyMap, cancels |-> <<>>]

Init ==
    /\ books = [s \in Symbols |-> EmptyBook]
    /\ next_id = 1
    /\ bus = <<>>
    /\ last = NoOp
    /\ orig = EmptyMap
    /\ pc = [t \in Tasks |-> "idle"]
    /\ req = [t \in Tasks |-> NoOp]
    /\ book_lock = [s \in Symbols |-> FreeLock]
    /\ pos_lock = FreeLock
    /\ positions = EmptyMap
    /\ committed = [s \in Symbols |-> EmptyBook]
    /\ sessions = [s \in Sessions |-> NoSession]
    /\ bus_closed = FALSE
    /\ applied = [n |-> 0, sum |-> EmptyMap]
    /\ ledger = NoLedger
    /\ db = NoDb

\* OrderBook::add_order called without a channel, as the ladder's own tests
\* call it: the whole call is one step.
AddOrder(sym, user, price, qty, side, order_type) ==
    /\ \E r \in {add_order(books[sym], next_id, user, price, qty, side, order_type)} :
       /\ books' = [books EXCEPT ![sym] = r.book]
       /\ last' = [op |-> "submit", sym |-> sym, id |-> next_id, user |-> user,
                   price |-> price, qty |-> qty, side |-> side, order_type |-> order_type,
                   order |-> r.order, trades |-> r.trades, steps |-> r.steps,
                   pre |-> books[sym], pre_orig |-> orig]
       /\ orig' = [id \in DOMAIN r.book.orders |-> IF id = next_id THEN qty ELSE orig[id]]
    /\ next_id' = next_id + 1
    /\ UNCHANGED <<bus, api_vars, ws_vars, applied, db, ledger>>

\* OrderBook::remove_order called without a channel.
RemoveOrder(sym, order_id) ==
    \E r \in {remove_order(books[sym], order_id)} :
        /\ books' = [books EXCEPT ![sym] = r.book]
        /\ last' = [op |-> "cancel", sym |-> sym, id |-> order_id,
                    removed |-> r.removed, pre |-> books[sym], pre_orig |-> orig]
        /\ orig' = [id \in DOMAIN r.book.orders |-> orig[id]]
        /\ UNCHANGED <<next_id, bus, api_vars, ws_vars, applied, db, ledger>>

\* The ladder never branches on the user of an order: order n is submitted
\* by UserOf(n), so that consecutive orders come from different users and
\* orders n and n + 2 from the same one.
UserOf(n) == IF n % 2 = 1 THEN "alice" ELSE "bob"

\* Spec: one ladder, every side, type, price and quantity.
SubmitAny ==
    \E price \in Prices, qty \in Qtys, side \in Sides, order_type \in OrderTypes :
        /\ next_id <= MaxOrders
        /\ AddOrder(LadderSym, UserOf(next_id), price, qty, side, order_type)

CancelAny == \E order_id \in 1..MaxOrders : RemoveOrder(LadderSym, order_id)

Next == SubmitAny \/ CancelAny

Spec == Init /\ [][Next]_vars

\* SpecDeep: the same ladder driven one order further over fewer inputs
\* (two prices, quantities 1 and 2), for the cases that need a maker
\* touched by two takers with another maker queued behind it.
DeepSubmit ==
    \E price \in DeepPrices, qty \in DeepQtys, side \in Sides, order_type \in OrderTypes :
        /\ next_id <= DeepOrders
        /\ AddOrder(LadderSym, UserOf(next_id), price, qty, side, order_type)

DeepCancel == \E order_id \in 1..DeepOrders : RemoveOrder(LadderSym, order_id)

NextDeep == DeepSubmit \/ DeepCancel

SpecDeep == Init /\ [][NextDeep]_vars

\* SpecDepth: the ladder with orders of every size a u64 holds, and the
\* queries (depth, recent trades) called on it.
WideQtys == {1, 2, U64_MAX}

DepthSubmit ==
    \E price \in DeepPrices, qty \in WideQtys, side \in Sides, order_type \in OrderTypes :
        /\ next_id <= MaxOrders
        /\ AddOrder(LadderSym, UserOf(next_id), price, qty, side, order_type)

DepthCancel == \E order_id \in 1..MaxOrders : RemoveOrder(LadderSym, order_id)

\* OrderBook::get_bids and OrderBook::get_asks called on the ladder, as
\* get_order_book calls them: the two sequences, or a panic where a sum
\* overflows in a build with overflow checks.
Depth ==
    \E overflow_checks \in BOOLEAN :
        LET book == books[LadderSym]
            panicked == overflow_checks /\ (\/ sum_overflows(book, book.bids)
                                            \/ sum_overflows(book, book.asks))
        IN  /\ last' = [op |-> "depth", sym |-> LadderSym, panicked |-> panicked,
                        bids |-> IF panicked THEN <<>> ELSE get_bids(book),
                        asks |-> IF panicked THEN <<>> ELSE get_asks(book),
                        prev |-> IF last.op \in {"recent_trades", "depth"} THEN last.prev ELSE last]
            /\ UNCHANGED <<books, next_id, bus, orig, api_vars, ws_vars, applied, db, ledger>>

\* The limits a trades query carries (usize): zero, fewer than the ring can
\* hold, and more.
Limits == {0, 1, 2, 3}

\* OrderBook::get_recent_trades called on the ladder; the history keeps the
\* ladder operation that preceded the queries.
RecentTrades ==
    \E limit \in Limits :
        /\ last' = [op |-> "recent_trades", sym |-> LadderSym, limit |-> limit,
                    trades |-> get_recent_trades(books[LadderSym], limit),
                    prev |-> IF last.op \in {"recent_trades", "depth"} THEN last.prev ELSE last]
        /\ UNCHANGED <<books, next_id, bus, orig, api_vars, ws_vars, applied, db, ledger>>

NextDepth == DepthSubmit \/ DepthCancel \/ Depth \/ RecentTrades

SpecDepth == Init /\ [][NextDepth]_vars

\* SpecPub: the ladder called with the channel, as create_order and
\* cancel_order call it under the write guard, with orders of every size a
\* u64 holds.  A call is one step: the guard excludes every other task.
\* broadcast_orderbook_update computes the depth, which panics where a sum
\* overflows in a build with overflow checks; the book is then left changed
\* and the update is not sent.
depth_panics(book, overflow_checks) ==
    overflow_checks /\ (sum_overflows(book, book.bids) \/ sum_overflows(book, book.asks))

PubSubmit ==
    \E price \in DeepPrices, qty \in WideQtys, side \in Sides, order_type \in OrderTypes,
       overflow_checks \in BOOLEAN :
        /\ next_id <= MaxOrders
        /\ \E r \in {add_order(books[LadderSym], next_id, UserOf(next_id), price, qty,
                                side, order_type)} :
           \E sent \in {broadcast_trades(bus, LadderSym, r.trades)} :
              /\ books' = [books EXCEPT ![LadderSym] = r.book]
              /\ bus' = IF depth_panics(r.book, overflow_checks) THEN sent
                        ELSE broadcast_orderbook_update(sent, LadderSym, r.book)
              /\ last' = [op |-> "submit", sym |-> LadderSym, id |-> next_id,
                          user |-> UserOf(next_id), price |-> price, qty |-> qty,
                          side |-> side, order_type |-> order_type, order |-> r.order,
                          trades |-> r.trades, steps |-> r.steps, pre |-> books[LadderSym],
                          pre_orig |-> orig, mark |-> Len(bus),
                          panicked |-> depth_panics(r.book, overflow_checks)]
              /\ orig' = [id \in DOMAIN r.book.orders |-> IF id = next_id THEN qty ELSE orig[id]]
        /\ next_id' = next_id + 1
        /\ UNCHANGED <<api_vars, ws_vars, applied, db, ledger>>

PubCancel ==
    \E order_id \in 1..MaxOrders, overflow_checks \in BOOLEAN :
        \E r \in {remove_order(books[LadderSym], order_id)} :
            /\ books' = [books EXCEPT ![LadderSym] = r.book]
            /\ bus' = IF r.removed # {} /\ depth_panics(r.book, overflow_checks) THEN bus
                      ELSE publish_cancel(bus, LadderSym, r)
            /\ last' = [op |-> "cancel", sym |-> LadderSym, id |-> order_id,
                        removed |-> r.removed, pre |-> books[LadderSym], pre_orig |-> orig,
                        mark |-> Len(bus),
                        panicked |-> r.removed # {} /\ depth_panics(r.book, overflow_checks)]
            /\ orig' = [id \in DOMAIN r.book.orders |-> orig[id]]
            /\ UNCHANGED <<next_id, api_vars, ws_vars, applied, db, ledger>>

NextPub == PubSubmit \/ PubCancel

SpecPub == Init /\ [][NextPub]_vars

\* SpecPos: the position store driven leg by leg, as the position tests
\* drive it.  The history keeps the
\* number of calls and, per key, the sum of +qty for a Buy and -qty for a
\* Sell over the calls that returned.
leg_delta(side, trade_qty) == IF side = "Buy" THEN trade_qty ELSE -trade_qty

\* The quantities of a leg: none, small ones, the largest that is positive
\* as an i64, the smallest that is not, and the largest u64.
LegQtys == {0, 1, 2, I64_MAX, I64_MAX + 1, U64_MAX}

\* positions::update_position called on its own.
ApplyLeg ==
    \E user_id \in Users, symbol \in LegSymbols, side \in Sides, price \in LegPrices,
       qty \in LegQtys, overflow_checks \in BOOLEAN :
        /\ applied.n < MaxLegs
        /\ \E r \in {update_position(positions, user_id, symbol, side, price, qty,
                                     overflow_checks)} :
            /\ positions' = r.store
            /\ last' = [op |-> "apply_leg", user_id |-> user_id, symbol |-> symbol,
                        side |-> side, price |-> price, qty |-> qty,
                        panicked |-> r.panicked, pre |-> positions]
            /\ applied' =
                  [n |-> applied.n + 1,
                   sum |-> IF r.panicked THEN applied.sum
                           ELSE LET key == <<user_id, to_uppercase(symbol)>> IN
                                MapPut(applied.sum, key,
                                       (IF key \in DOMAIN applied.sum THEN applied.sum[key] ELSE 0)
                                           + leg_delta(side, qty))]
        /\ UNCHANGED <<books, next_id, bus, orig, pc, req, book_lock, pos_lock, committed, ws_vars, db, ledger>>

NextPos == ApplyLeg

SpecPos == Init /\ [][NextPos]_vars

\* ------------------------------------------------------------ the handlers
\* The handlers of routes.rs without a database (state.db is None), each cut
\* at the points where another task can run: a lock acquisition, a change of
\* the book, a send on the channel, a leg of a position.
TaskUser(t) == IF t = "t1" THEN "alice" ELSE "bob"

\* create_order: "let maker_side = match order.side"
opposite(side) == IF side = "Buy" THEN "Sell" ELSE "Buy"

acquire_write(lock, t) == [lock EXCEPT !.writer = {t}]
acquire_read(lock, t) == [lock EXCEPT !.readers = @ \cup {t}]
release(lock, t) == [writer |-> lock.writer \ {t}, readers |-> lock.readers \ {t}]

Goto(t, label) == pc' = [pc EXCEPT ![t] = label]

\* create_order: "let mut book = orderbook.write().await" for a request body
CoLock(t) ==
    \E price \in ApiPrices, qty \in ApiQtys, side \in Sides, order_type \in OrderTypes :
        /\ pc[t] = "idle"
        /\ next_id <= ApiOrders
        /\ can_write(book_lock[LadderSym])
        /\ book_lock' = [book_lock EXCEPT ![LadderSym] = acquire_write(@, t)]
        /\ req' = [req EXCEPT ![t] =
                      [op |-> "create_order", symbol |-> LadderSym,
                       order |-> new_order(0, TaskUser(t), price, qty, side, order_type),
                       trades |-> <<>>, i |-> 1, mark |-> 0]]
        /\ Goto(t, "co_match")
        /\ UNCHANGED <<books, next_id, bus, last, orig, ws_vars, pos_lock, positions, committed, applied, db, ledger>>

\* add_order under the guard: the order gets its id, is matched, and the
\* trades are stored
CoMatch(t) ==
    /\ pc[t] = "co_match"
    /\ \E r \in {match_and_store(books[req[t].symbol], [req[t].order EXCEPT !.id = next_id])} :
           /\ books' = [books EXCEPT ![req[t].symbol] = r.book]
           /\ req' = [req EXCEPT ![t] = [@ EXCEPT !.order = r.order, !.trades = r.trades,
                                                  !.mark = Len(bus)]]
    /\ next_id' = next_id + 1
    /\ Goto(t, "co_rest")
    /\ UNCHANGED <<bus, last, orig, ws_vars, book_lock, pos_lock, positions, committed, applied, db, ledger>>

\* add_order under the guard: rest or drop
CoRest(t) ==
    /\ pc[t] = "co_rest"
    /\ books' = [books EXCEPT ![req[t].symbol] = rest_or_drop(@, req[t].order)]
    /\ Goto(t, "co_send")
    /\ UNCHANGED <<next_id, bus, last, orig, ws_vars, req, book_lock, pos_lock, positions, committed, applied, db, ledger>>

\* add_order under the guard: one Trade message sent
CoSendTrade(t) ==
    /\ pc[t] = "co_send"
    /\ req[t].i <= Len(req[t].trades)
    /\ can_send(bus, sessions)
    /\ bus' = send_trade(bus, req[t].symbol, trade_at(req[t].trades, req[t].i))
    /\ req' = [req EXCEPT ![t].i = @ + 1]
    /\ UNCHANGED <<books, next_id, last, orig, ws_vars, pc, book_lock, pos_lock, positions, committed, applied, db, ledger>>

\* add_order under the guard: the OrderBookUpdate sent after the trades
\* (with the quantities of ApiQtys no level's sum passes u64::MAX)
CoSendUpdate(t) ==
    /\ pc[t] = "co_send"
    /\ req[t].i > Len(req[t].trades)
    /\ can_send(bus, sessions)
    /\ bus' = broadcast_orderbook_update(bus, req[t].symbol, books[req[t].symbol])
    /\ Goto(t, "co_unlock")
    /\ UNCHANGED <<books, next_id, last, orig, ws_vars, req, book_lock, pos_lock, positions, committed, applied, db, ledger>>

\* create_order: the guard dropped at the end of the block, then the
\* NoLiquidity answer or the loop over the trades
CoUnlock(t) ==
    /\ pc[t] = "co_unlock"
    /\ book_lock' = [book_lock EXCEPT ![req[t].symbol] = release(@, t)]
    /\ committed' = [committed EXCEPT ![req[t].symbol] = books[req[t].symbol]]
    /\ IF req[t].trades = <<>>
       THEN Goto(t, "idle") /\ req' = [req EXCEPT ![t] = NoOp]
       ELSE Goto(t, "co_maker") /\ req' = [req EXCEPT ![t].i = 1]
    /\ UNCHANGED <<books, next_id, bus, last, orig, ws_vars, pos_lock, positions, applied, db, ledger>>

\* update_position: "let mut guard = store.write().await", for either leg
CoLegLock(t) ==
    /\ pc[t] \in {"co_maker", "co_taker"}
    /\ can_write(pos_lock)
    /\ pos_lock' = acquire_write(pos_lock, t)
    /\ Goto(t, IF pc[t] = "co_maker" THEN "co_maker_leg" ELSE "co_taker_leg")
    /\ UNCHANGED <<books, next_id, bus, last, orig, ws_vars, req, book_lock, positions, committed, applied, db, ledger>>

\* update_position for the maker of the i-th trade; the guard is dropped
\* when the call returns
CoMakerLeg(t) ==
    /\ pc[t] = "co_maker_leg"
    /\ \E overflow_checks \in BOOLEAN :
       \E r \in {update_position(positions, req[t].trades[req[t].i].maker_user_id,
                                 req[t].symbol, opposite(req[t].order.side),
                                 req[t].trades[req[t].i].price,
                                 req[t].trades[req[t].i].quantity, overflow_checks)} :
           /\ positions' = r.store
           /\ IF r.panicked
              THEN Goto(t, "idle") /\ req' = [req EXCEPT ![t] = NoOp]
              ELSE Goto(t, "co_taker") /\ UNCHANGED req
    /\ pos_lock' = release(pos_lock, t)
    /\ UNCHANGED <<books, next_id, bus, last, orig, ws_vars, book_lock, committed, applied, db, ledger>>

\* update_position for the taker of the i-th trade, then the next trade
CoTakerLeg(t) ==
    /\ pc[t] = "co_taker_leg"
    /\ \E overflow_checks \in BOOLEAN :
       \E r \in {update_position(positions, req[t].trades[req[t].i].taker_user_id,
                                 req[t].symbol, req[t].order.side,
                                 req[t].trades[req[t].i].price,
                                 req[t].trades[req[t].i].quantity, overflow_checks)} :
           /\ positions' = r.store
           /\ IF req[t].i < Len(req[t].trades) /\ ~r.panicked
              THEN Goto(t, "co_maker") /\ req' = [req EXCEPT ![t].i = @ + 1]
              ELSE Goto(t, "idle") /\ req' = [req EXCEPT ![t] = NoOp]
    /\ pos_lock' = release(pos_lock, t)
    /\ UNCHANGED <<books, next_id, bus, last, orig, ws_vars, book_lock, committed, applied, db, ledger>>

\* Mutant: the ownership test never fails.
not_owner_never(order, user_id) == FALSE

\* cancel_order / get_order: "order.user_id != auth.user_id"
not_owner(order, user_id) == order.user_id # user_id

\* cancel_order: "let book = orderbook.read().await" for an order id.  Ids
\* are Uuid::new_v4: a request names an id that some order was given, or one
\* that no order has or will have (0).
CaRead(t) ==
    \E order_id \in CancelIds :
        /\ pc[t] = "idle"
        /\ order_id < next_id
        /\ can_read(book_lock[LadderSym])
        /\ book_lock' = [book_lock EXCEPT ![LadderSym] = acquire_read(@, t)]
        /\ req' = [req EXCEPT ![t] = [op |-> "cancel_order", symbol |-> LadderSym,
                                      user_id |-> TaskUser(t), order_id |-> order_id,
                                      removed |-> {}]]
        /\ Goto(t, "ca_check")
        /\ UNCHANGED <<books, next_id, bus, last, orig, ws_vars, pos_lock, positions, committed, applied, db, ledger>>

\* cancel_order: the ownership test under the read guard, which is dropped
\* at the end of the block
CaCheck(t) ==
    /\ pc[t] = "ca_check"
    /\ book_lock' = [book_lock EXCEPT ![req[t].symbol] = release(@, t)]
    /\ IF \E order \in get_order_by_id(books[req[t].symbol], req[t].order_id) :
              not_owner(order, req[t].user_id)
       THEN Goto(t, "idle") /\ req' = [req EXCEPT ![t] = NoOp]
       ELSE Goto(t, "ca_write") /\ UNCHANGED req
    /\ UNCHANGED <<books, next_id, bus, last, orig, ws_vars, pos_lock, positions, committed, applied, db, ledger>>

\* cancel_order: "let mut book = orderbook.write().await"
CaWrite(t) ==
    /\ pc[t] = "ca_write"
    /\ can_write(book_lock[req[t].symbol])
    /\ book_lock' = [book_lock EXCEPT ![req[t].symbol] = acquire_write(@, t)]
    /\ Goto(t, "ca_remove")
    /\ UNCHANGED <<books, next_id, bus, last, orig, ws_vars, req, pos_lock, positions, committed, applied, db, ledger>>

\* remove_order under the guard: the removal
CaRemove(t) ==
    /\ pc[t] = "ca_remove"
    /\ \E r \in {remove_order(books[req[t].symbol], req[t].order_id)} :
        /\ books' = [books EXCEPT ![req[t].symbol] = r.book]
        /\ req' = [req EXCEPT ![t].removed = r.removed]
    /\ Goto(t, "ca_finish")
    /\ UNCHANGED <<next_id, bus, last, orig, ws_vars, book_lock, pos_lock, positions, committed, applied, db, ledger>>

\* remove_order under the guard: the OrderBookUpdate of a removal; then the
\* handler returns and the guard is dropped
CaFinish(t) ==
    /\ pc[t] = "ca_finish"
    /\ req[t].removed # {} => can_send(bus, sessions)
    /\ bus' = publish_cancel(bus, req[t].symbol,
                             [book |-> books[req[t].symbol], removed |-> req[t].removed])
    /\ book_lock' = [book_lock EXCEPT ![req[t].symbol] = release(@, t)]
    /\ committed' = [committed EXCEPT ![req[t].symbol] = books[req[t].symbol]]
    /\ Goto(t, "idle")
    /\ req' = [req EXCEPT ![t] = NoOp]
    /\ UNCHANGED <<books, next_id, last, orig, ws_vars, pos_lock, positions, applied, db, ledger>>

ReadOps == {"get_order_book", "get_order", "get_trades"}

\* what a reading handler returns from a book
view(op, book, user_id, order_id) ==
    IF op = "get_order_book" THEN [bids |-> get_bids(book), asks |-> get_asks(book)]
    ELSE IF op = "get_trades" THEN [trades |-> get_recent_trades(book, 100)]
    ELSE LET found == get_order_by_id(book, order_id) IN
         IF found = {} THEN [error |-> "NOT_FOUND"]
         ELSE IF \E order \in found : not_owner(order, user_id) THEN [error |-> "FORBIDDEN"]
         ELSE [order |-> CHOOSE order \in found : TRUE]

\* get_order_book / get_order / get_trades: "let book = orderbook.read().await"
RdLock(t) ==
    \E op \in ReadOps :
        /\ pc[t] = "idle"
        /\ can_read(book_lock[LadderSym])
        /\ book_lock' = [book_lock EXCEPT ![LadderSym] = acquire_read(@, t)]
        /\ req' = [req EXCEPT ![t] = [op |-> op, symbol |-> LadderSym, user_id |-> TaskUser(t),
                                      order_id |-> 1]]
        /\ Goto(t, "rd_read")
        /\ UNCHANGED <<books, next_id, bus, last, orig, ws_vars, pos_lock, positions, committed, applied, db, ledger>>

\* the answer a reading handler that holds the read guard builds and returns
reads(t) == view(req[t].op, books[req[t].symbol], req[t].user_id, req[t].order_id)

\* the reading handler returns its answer and the read guard is dropped
RdRead(t) ==
    /\ pc[t] = "rd_read"
    /\ book_lock' = [book_lock EXCEPT ![req[t].symbol] = release(@, t)]
    /\ Goto(t, "idle")
    /\ req' = [req EXCEPT ![t] = NoOp]
    /\ UNCHANGED <<books, next_id, bus, last, orig, ws_vars, pos_lock, positions, committed, applied, db, ledger>>

\* a trade of some create_order has its maker leg applied and its taker leg not
one_sided == \E u \in Tasks : pc[u] \in {"co_taker", "co_taker_leg"}

\* positions::get_positions: "let guard = store.read().await"
GpLock(t) ==
    /\ pc[t] = "idle"
    /\ can_read(pos_lock)
    /\ pos_lock' = acquire_read(pos_lock, t)
    /\ req' = [req EXCEPT ![t] = [op |-> "get_positions", symbol |-> LadderSym,
                                  user_id |-> TaskUser(t)]]
    /\ Goto(t, "gp_read")
    /\ UNCHANGED <<books, next_id, bus, last, orig, ws_vars, book_lock, positions, committed, applied, db, ledger>>

\* the positions get_positions collects under the read guard
reads_positions(t) == get_positions(positions, req[t].user_id, {req[t].symbol})

\* get_positions returns and the read guard is dropped
GpRead(t) ==
    /\ pc[t] = "gp_read"
    /\ pos_lock' = release(pos_lock, t)
    /\ Goto(t, "idle")
    /\ req' = [req EXCEPT ![t] = NoOp]
    /\ UNCHANGED <<books, next_id, bus, last, orig, ws_vars, book_lock, positions, committed, applied, db, ledger>>

NextApi ==
    \E t \in Tasks :
        \/ CoLock(t) \/ CoMatch(t) \/ CoRest(t) \/ CoSendTrade(t) \/ CoSendUpdate(t)
        \/ CoUnlock(t) \/ CoLegLock(t) \/ CoMakerLeg(t) \/ CoTakerLeg(t)
        \/ CaRead(t) \/ CaCheck(t) \/ CaWrite(t) \/ CaRemove(t) \/ CaFinish(t)
        \/ RdLock(t) \/ RdRead(t) \/ GpLock(t) \/ GpRead(t)

SpecApi == Init /\ [][NextApi]_vars

\* ------------------------------------------------------- the matching loop
\* SpecLoop: add_order with its matching loop run one iteration per step, on
\* a ladder that may hold what the loop's own branches provide for: a
\* queued id without a record and a level with an empty queue.
LoopTask == "t1"

\* ids no order is ever given
OrphanIds == {8, 9}

\* a ladder with, on each side, a level whose queue is empty and a level
\* whose queue starts with an id that has no record
OrphanedBook ==
    [bids |-> MapPut(MapPut(EmptyMap, 1, <<>>), 0, <<8>>),
     asks |-> MapPut(MapPut(EmptyMap, 0, <<>>), 1, <<9>>),
     orders |-> EmptyMap, trades |-> <<>>]

\* match_buy_order / match_sell_order: best_ask() for a buy, best_bid() for
\* a sell, as a set of at most one price
best_opposite(m) ==
    IF DOMAIN m.opp = {} THEN {}
    ELSE IF m.order.side = "Buy" THEN {SetMin(DOMAIN m.opp)} ELSE {SetMax(DOMAIN m.opp)}

\* Mutant: the loop does not test what is left of the incoming order.
loop_continues_while_crossing(m) ==
    \E level_price \in best_opposite(m) : crosses(m.order, level_price)

\* "while order.quantity > 0", the break when the opposite side is empty
\* and the break when the best level is not crossed
loop_continues(m) ==
    /\ m.order.quantity > 0
    /\ \E level_price \in best_opposite(m) : crosses(m.order, level_price)

\* add_order is entered: the order is built and the loop is about to start
LoopStart ==
    \E price \in DeepPrices, qty \in DeepQtys, side \in Sides, order_type \in OrderTypes :
        /\ pc[LoopTask] = "idle"
        /\ next_id <= MaxOrders
        /\ req' = [req EXCEPT ![LoopTask] =
              [op |-> "add_order",
               m |-> [opp |-> IF side = "Buy" THEN books[LadderSym].asks
                                              ELSE books[LadderSym].bids,
                      orders |-> books[LadderSym].orders,
                      order |-> new_order(next_id, UserOf(next_id), price, qty, side,
                                          order_type),
                      trades |-> <<>>, steps |-> <<>>, original_qty |-> qty]]]
        /\ next_id' = next_id + 1
        /\ Goto(LoopTask, "match_loop")
        /\ UNCHANGED <<books, bus, last, orig, book_lock, pos_lock, positions, committed,
                       ws_vars, applied, db, ledger>>

\* one iteration of the loop on the best opposite level
LoopStep ==
    /\ pc[LoopTask] = "match_loop"
    /\ loop_continues(req[LoopTask].m)
    /\ \E level_price \in best_opposite(req[LoopTask].m) :
          req' = [req EXCEPT ![LoopTask].m = fill_head(@, level_price)]
    /\ UNCHANGED <<books, next_id, bus, last, orig, pc, book_lock, pos_lock, positions,
                   committed, ws_vars, applied, db, ledger>>

\* the loop has ended: the trades are stored, the remainder rests or is
\* dropped, and add_order returns
LoopEnd ==
    /\ pc[LoopTask] = "match_loop"
    /\ ~loop_continues(req[LoopTask].m)
    /\ \E m \in {req[LoopTask].m} :
          /\ books' = [books EXCEPT ![LadderSym] =
                rest_or_drop(
                    [@ EXCEPT !.asks = IF m.order.side = "Buy" THEN m.opp ELSE @,
                              !.bids = IF m.order.side = "Buy" THEN @ ELSE m.opp,
                              !.orders = m.orders,
                              !.trades = store_trades(@, m.trades)],
                    m.order)]
          /\ last' = [op |-> "submit", sym |-> LadderSym, id |-> m.order.id,
                      order |-> m.order, trades |-> m.trades, steps |-> m.steps,
                      qty |-> m.original_qty, pre |-> books[LadderSym]]
    /\ req' = [req EXCEPT ![LoopTask] = NoOp]
    /\ Goto(LoopTask, "idle")
    /\ UNCHANGED <<next_id, bus, orig, book_lock, pos_lock, positions, committed,
                   ws_vars, applied, db, ledger>>

\* the ladder as it is built, or one that holds orphans
InitLoop ==
    /\ books \in {[s \in Symbols |-> EmptyBook],
                  [s \in Symbols |-> IF s = LadderSym THEN OrphanedBook ELSE EmptyBook]}
    /\ next_id = 1
    /\ bus = <<>>
    /\ last = NoOp
    /\ orig = EmptyMap
    /\ pc = [t \in Tasks |-> "idle"]
    /\ req = [t \in Tasks |-> NoOp]
    /\ book_lock = [s \in Symbols |-> FreeLock]
    /\ pos_lock = FreeLock
    /\ positions = EmptyMap
    /\ committed = [s \in Symbols |-> EmptyBook]
    /\ sessions = [s \in Sessions |-> NoSession]
    /\ bus_closed = FALSE
    /\ applied = [n |-> 0, sum |-> EmptyMap]
    /\ ledger = NoLedger
    /\ db = NoDb

NextLoop == LoopStart \/ LoopStep \/ LoopEnd

\* the call runs: an iteration that can be taken is taken
SpecLoop == InitLoop /\ [][NextLoop]_vars /\ WF_vars(LoopStep \/ LoopEnd)

\* ------------------------------------------------------------- persistence
\* persistence::insert_order: one row of the orders table, its quantity
\* bound with "quantity as i64"
insert_order(tables, order, symbol) ==
    [tables EXCEPT !.orders =
        MapPut(@, order.id,
               [id |-> order.id, user_id |-> order.user_id, symbol |-> symbol,
                side |-> order.side, order_type |-> order.order_type, price |-> order.price,
                quantity |-> as_i64(order.quantity), status |-> order.status])]

\* persistence::update_order_status: "UPDATE orders SET status = $1 WHERE id = $2"
persisted_order_status(tables, id, status) ==
    IF id \in DOMAIN tables.orders
    THEN [tables EXCEPT !.orders = MapPut(@, id, [@[id] EXCEPT !.status = status])]
    ELSE tables

\* persistence::get_order_by_id: "FROM orders WHERE id = $1", Option<OrderRow>
\* as a set of at most one row
select_order_by_id(tables, order_id) ==
    IF order_id \in DOMAIN tables.orders THEN {tables.orders[order_id]} ELSE {}

\* persistence::order_row_to_order_display: "row.quantity.max(0) as u64"
order_row_to_order_display(row) ==
    [id |-> row.id, user_id |-> row.user_id, side |-> row.side,
     order_type |-> row.order_type, price |-> row.price,
     quantity |-> IF row.quantity < 0 THEN 0 ELSE row.quantity, status |-> row.status]

\* persistence::insert_trade: one row of the trades table; the rows are kept
\* in the order of their insertion, which is the order of created_at
insert_trade(tables, trade, symbol) ==
    [tables EXCEPT !.trades =
        Append(@, [trade |-> [trade EXCEPT !.quantity = as_i64(@)], symbol |-> symbol])]

RECURSIVE insert_trades_from(_, _, _, _)
\* create_order: "for trade in &trades { .. insert_trade(..) .. }"
insert_trades_from(tables, trades, symbol, i) ==
    IF i > Len(trades) THEN tables
    ELSE insert_trades_from(insert_trade(tables, trades[i], symbol), trades, symbol, i + 1)

\* persistence::trade_row_to_trade: "quantity: row.quantity as u64"
trade_row_to_trade(row) == [row.trade EXCEPT !.quantity = wrap_u64(@)]

\* persistence::list_trades: "FROM trades WHERE symbol = $1 ORDER BY
\* created_at DESC LIMIT $2"
list_trades(tables, symbol, limit) ==
    LET newest == take(rev(SelectSeq(tables.trades, LAMBDA row : row.symbol = symbol)), limit)
    IN  [i \in 1..Len(newest) |-> trade_row_to_trade(newest[i])]

\* persistence::upsert_position: "ON CONFLICT (user_id, symbol) DO UPDATE"
upsert_position(tables, user_id, symbol, quantity, average_price) ==
    [tables EXCEPT !.positions =
        MapPut(@, <<user_id, symbol>>, [quantity |-> quantity, average_price |-> average_price])]

RECURSIVE upsert_positions(_, _, _, _)
\* create_order: "for (uid, sym) in keys", each user's position of the
\* symbol, where the store has one, written to the positions table
upsert_positions(tables, store, symbol, users) ==
    IF users = {} THEN tables
    ELSE LET uid == CHOOSE u \in users : TRUE
             key == <<uid, symbol>>
         IN  upsert_positions(
                 IF key \in DOMAIN store
                 THEN upsert_position(tables, uid, symbol, store[key].quantity,
                                      store[key].average_price)
                 ELSE tables,
                 store, symbol, users \ {uid})

\* create_order: "if let Some(ref db) = state.db { .. }", the order, its
\* trades and the positions of the users of the call
persist_created(tables, order, trades, symbol, store) ==
    IF ~tables.present THEN tables
    ELSE upsert_positions(
             insert_trades_from(insert_order(tables, order, symbol), trades, symbol, 1),
             store, symbol,
             {order.user_id} \cup {trades[i].maker_user_id : i \in 1..Len(trades)}
                             \cup {trades[i].taker_user_id : i \in 1..Len(trades)})

RECURSIVE rows_by_created_at(_, _)
\* "ORDER BY created_at": the rows of ids in the order of their insertion,
\* which is the order of their ids
rows_by_created_at(orders, ids) ==
    IF ids = {} THEN <<>>
    ELSE LET first == CHOOSE id \in ids : \A other \in ids : id <= other
         IN  <<orders[first]>> \o rows_by_created_at(orders, ids \ {first})

\* persistence::list_open_orders_by_symbol: "FROM orders WHERE symbol = $1
\* AND status IN ('Pending', 'PartiallyFilled') ORDER BY created_at"
list_open_orders_by_symbol(tables, symbol) ==
    rows_by_created_at(tables.orders,
                       {id \in DOMAIN tables.orders :
                           /\ tables.orders[id].symbol = symbol
                           /\ tables.orders[id].status \in {"Pending", "PartiallyFilled"}})

\* persistence::order_row_to_order: "row.quantity.try_into().ok().filter(|&q|
\* q > 0)?", Option<Order> as a set of at most one order
order_row_to_order(row) ==
    IF row.quantity > 0
    THEN {[id |-> row.id, user_id |-> row.user_id, side |-> row.side,
           order_type |-> row.order_type, price |-> row.price,
           quantity |-> row.quantity, status |-> row.status]}
    ELSE {}

\* OrderBook::restore_order: the order joins the records and the tail of its
\* level, unmatched
restore_order(book, order) == insert_resting(book, order)

RECURSIVE restore_from(_, _, _)
\* main: "for row in &rows { if let Some(order) = order_row_to_order(row) {
\* book.restore_order(order) } }"
restore_from(book, rows, i) ==
    IF i > Len(rows) THEN book
    ELSE restore_from(
             IF order_row_to_order(rows[i]) = {} THEN book
             ELSE restore_order(book, CHOOSE order \in order_row_to_order(rows[i]) : TRUE),
             rows, i + 1)

\* main: the ladder of a symbol as a start of the process builds it from the
\* orders table
hydrated(tables, symbol) ==
    restore_from(EmptyBook, list_open_orders_by_symbol(tables, symbol), 1)

\* persistence::list_positions_for_user: "FROM positions WHERE user_id = $1"
\* with "AND symbol = $2" under a filter; the rows as a set
list_positions_for_user(tables, user_id, symbol_filter) ==
    {[user_id |-> key[1], symbol |-> key[2],
      quantity |-> tables.positions[key].quantity,
      average_price |-> tables.positions[key].average_price] :
        key \in {k \in DOMAIN tables.positions :
                    k[1] = user_id /\ \A symbol \in symbol_filter : k[2] = symbol}}

\* persistence::list_positions with the loop of main that inserts every row
\* into the position store: the store as a start of the process builds it
hydrated_positions(tables) == tables.positions

\* ------------------------------------------------- the handlers, call by call
\* SpecHttp: the handlers of routes.rs, each request served from its first
\* line to its answer in one step, with the database of main (db: Some) or
\* without one (db: None, as the test applications are built).  A request
\* names its symbol in any case or names a symbol the registry does not hold.
HttpSymbols == {"btcusdt", "BTCUSDT", "XRPUSDT"}

\* routes.rs get_orderbook: the symbol in upper case, looked up in the
\* registry; Result as a set of at most one symbol
get_orderbook(orderbooks, symbol) ==
    IF to_uppercase(symbol) \in DOMAIN orderbooks THEN {to_uppercase(symbol)} ELSE {}

\* the answers of the handlers
Ok(body) == [status |-> "OK", body |-> body]
SymbolNotFound == [status |-> "NOT_FOUND", error |-> "Symbol not found"]
OrderNotFound == [status |-> "NOT_FOUND", error |-> "Order not found"]
Forbidden == [status |-> "FORBIDDEN", error |-> "Forbidden: order does not belong to you"]
NoLiquidity == [status |-> "BAD_REQUEST",
                error |-> "Market order could not be filled: no liquidity"]
Panicked == [status |-> "none", error |-> "panic"]

\* Mutant: the test on the trades is inverted.
no_liquidity_when_filled(order_type, trades) == order_type = "Market" /\ trades # <<>>

\* create_order: "if body.order_type == OrderType::Market && trades.is_empty()"
no_liquidity(order_type, trades) == order_type = "Market" /\ trades = <<>>

RECURSIVE update_positions_from(_, _, _, _, _, _)
\* create_order: "for trade in &trades", the maker's leg then the taker's;
\* a panic ends the handler
update_positions_from(store, trades, symbol, side, overflow_checks, i) ==
    IF i > Len(trades) THEN [store |-> store, panicked |-> FALSE]
    ELSE LET maker == update_position(store, trades[i].maker_user_id, symbol, opposite(side),
                                      trades[i].price, trades[i].quantity, overflow_checks)
         IN  IF maker.panicked THEN maker
             ELSE LET taker == update_position(maker.store, trades[i].taker_user_id, symbol,
                                               side, trades[i].price, trades[i].quantity,
                                               overflow_checks)
                  IN  IF taker.panicked THEN taker
                      ELSE update_positions_from(taker.store, trades, symbol, side,
                                                 overflow_checks, i + 1)

\* what a request finds: the state it is served on
Served == [books |-> books, positions |-> positions, bus |-> bus, db |-> db]

\* create_order, the whole handler, for one request.  Where the depth of
\* the changed ladder overflows in a build with overflow checks,
\* broadcast_orderbook_update panics inside add_order: the ladder is changed,
\* the trades are sent, and the handler ends there.  A panic of
\* update_position ends the handler between two legs.
CreateOrder(user_id, symbol, price, qty, side, order_type, overflow_checks) ==
    /\ IF get_orderbook(books, symbol) = {}
       THEN /\ last' = [op |-> "create_order", symbol |-> symbol, user_id |-> user_id,
                        response |-> SymbolNotFound, pre |-> Served]
            /\ UNCHANGED <<books, next_id, bus, positions, db, ledger>>
       ELSE
       \E sym \in get_orderbook(books, symbol) :
       \E r \in {add_order(books[sym], next_id, user_id, price, qty, side, order_type)} :
       \E died \in {depth_panics(r.book, overflow_checks)} :
       \E legs \in {IF died \/ no_liquidity(order_type, r.trades)
                    THEN [store |-> positions, panicked |-> FALSE]
                    ELSE update_positions_from(positions, r.trades, sym, side,
                                               overflow_checks, 1)} :
          /\ books' = [books EXCEPT ![sym] = r.book]
          /\ next_id' = next_id + 1
          /\ bus' = IF died THEN broadcast_trades(bus, sym, r.trades)
                    ELSE broadcast_orderbook_update(broadcast_trades(bus, sym, r.trades),
                                                    sym, r.book)
          /\ positions' = legs.store
          /\ db' = IF died \/ no_liquidity(order_type, r.trades) \/ legs.panicked THEN db
                   ELSE persist_created(db, r.order, r.trades, sym, legs.store)
          /\ last' = [op |-> "create_order", symbol |-> symbol, user_id |-> user_id,
                      id |-> next_id, price |-> price, side |-> side,
                      order_type |-> order_type, qty |-> qty,
                      order |-> r.order, trades |-> r.trades,
                      response |-> IF died THEN Panicked
                                   ELSE IF no_liquidity(order_type, r.trades) THEN NoLiquidity
                                   ELSE IF legs.panicked THEN Panicked
                                   ELSE Ok(r.order),
                      pre |-> Served]
    /\ UNCHANGED <<orig, pc, req, book_lock, pos_lock, committed, ws_vars, applied, ledger>>

\* create_order on the requests of SpecHttp (with the quantities of ApiQtys
\* no level's sum passes u64::MAX).  The n-th order comes from UserOf(n).
HttpCreateOrder ==
    \E user_id \in {UserOf(next_id)}, symbol \in HttpSymbols, price \in ApiPrices, qty \in ApiQtys,
       side \in Sides, order_type \in OrderTypes, overflow_checks \in BOOLEAN :
        /\ next_id <= ApiOrders
        /\ CreateOrder(user_id, symbol, price, qty, side, order_type, overflow_checks)

\* cancel_order, the whole handler
HttpCancelOrder ==
    \E user_id \in Users, symbol \in HttpSymbols, order_id \in CancelIds :
        /\ order_id < next_id
        /\ IF get_orderbook(books, symbol) = {}
           THEN /\ last' = [op |-> "cancel_order", symbol |-> symbol, user_id |-> user_id,
                            order_id |-> order_id, response |-> SymbolNotFound,
                            pre |-> Served]
                /\ UNCHANGED <<books, bus, db, ledger>>
           ELSE
           \E sym \in get_orderbook(books, symbol) :
              IF \E order \in get_order_by_id(books[sym], order_id) : not_owner(order, user_id)
              THEN /\ last' = [op |-> "cancel_order", symbol |-> symbol, user_id |-> user_id,
                               order_id |-> order_id, response |-> Forbidden, pre |-> Served]
                   /\ UNCHANGED <<books, bus, db, ledger>>
              ELSE
              \E r \in {remove_order(books[sym], order_id)} :
                 /\ books' = [books EXCEPT ![sym] = r.book]
                 /\ bus' = publish_cancel(bus, sym, r)
                 /\ db' = IF r.removed # {} /\ db.present
                          THEN persisted_order_status(db, order_id, "Cancelled") ELSE db
                 /\ last' = [op |-> "cancel_order", symbol |-> symbol, user_id |-> user_id,
                             order_id |-> order_id,
                             response |-> IF r.removed = {} THEN OrderNotFound
                                          ELSE [status |-> "NO_CONTENT"],
                             pre |-> Served]
        /\ UNCHANGED <<next_id, orig, api_vars, ws_vars, applied, ledger>>

\* get_order: from the orders table where the application has a database,
\* from the ladder of the symbol where it has none
get_order(orderbooks, tables, user_id, symbol, order_id) ==
    IF tables.present THEN
        IF select_order_by_id(tables, order_id) = {} THEN OrderNotFound
        ELSE LET row == CHOOSE row \in select_order_by_id(tables, order_id) : TRUE IN
             IF row.user_id # user_id THEN Forbidden
             ELSE Ok(order_row_to_order_display(row))
    ELSE IF get_orderbook(orderbooks, symbol) = {} THEN SymbolNotFound
    ELSE LET sym == CHOOSE sym \in get_orderbook(orderbooks, symbol) : TRUE IN
         IF get_order_by_id(orderbooks[sym], order_id) = {} THEN OrderNotFound
         ELSE LET order == CHOOSE order \in get_order_by_id(orderbooks[sym], order_id) : TRUE IN
              IF not_owner(order, user_id) THEN Forbidden ELSE Ok(order)

\* get_order_book: the depth of the ladder of the symbol (with the
\* quantities of ApiQtys no level's sum passes u64::MAX)
get_order_book(orderbooks, symbol) ==
    IF get_orderbook(orderbooks, symbol) = {} THEN SymbolNotFound
    ELSE LET sym == CHOOSE sym \in get_orderbook(orderbooks, symbol) : TRUE IN
         Ok([bids |-> get_bids(orderbooks[sym]), asks |-> get_asks(orderbooks[sym])])

\* get_trades: from the trades table, by the symbol as the request spells
\* it, where the application has a database; from the ring of the ladder of
\* the symbol where it has none
get_trades(orderbooks, tables, symbol, limit) ==
    IF tables.present THEN Ok(list_trades(tables, symbol, limit))
    ELSE IF get_orderbook(orderbooks, symbol) = {} THEN SymbolNotFound
    ELSE LET sym == CHOOSE sym \in get_orderbook(orderbooks, symbol) : TRUE IN
         Ok(get_recent_trades(orderbooks[sym], limit))

\* get_order answers and changes nothing
HttpGetOrder ==
    \E user_id \in Users, symbol \in HttpSymbols, order_id \in CancelIds :
        /\ order_id < next_id
        /\ last' = [op |-> "get_order", symbol |-> symbol, user_id |-> user_id,
                    order_id |-> order_id,
                    response |-> get_order(books, db, user_id, symbol, order_id),
                    pre |-> Served]
        /\ UNCHANGED <<books, next_id, bus, orig, api_vars, ws_vars, applied, db, ledger>>

\* get_order_book answers and changes nothing
HttpGetOrderBook ==
    \E symbol \in HttpSymbols :
        /\ last' = [op |-> "get_order_book", symbol |-> symbol,
                    response |-> get_order_book(books, symbol), pre |-> Served]
        /\ UNCHANGED <<books, next_id, bus, orig, api_vars, ws_vars, applied, db, ledger>>

\* get_trades answers and changes nothing
HttpGetTrades ==
    \E symbol \in HttpSymbols :
        /\ last' = [op |-> "get_trades", symbol |-> symbol,
                    response |-> get_trades(books, db, symbol, 100), pre |-> Served]
        /\ UNCHANGED <<books, next_id, bus, orig, api_vars, ws_vars, applied, db, ledger>>

\* main builds the application with a database, the tests without one
InitHttp ==
    /\ books = [s \in Symbols |-> EmptyBook]
    /\ next_id = 1
    /\ bus = <<>>
    /\ last = NoOp
    /\ orig = EmptyMap
    /\ pc = [t \in Tasks |-> "idle"]
    /\ req = [t \in Tasks |-> NoOp]
    /\ book_lock = [s \in Symbols |-> FreeLock]
    /\ pos_lock = FreeLock
    /\ positions = EmptyMap
    /\ committed = [s \in Symbols |-> EmptyBook]
    /\ sessions = [s \in Sessions |-> NoSession]
    /\ bus_closed = FALSE
    /\ applied = [n |-> 0, sum |-> EmptyMap]
    /\ ledger = NoLedger
    /\ db \in {NoDb, EmptyDb}

NextHttp ==
    \/ HttpCreateOrder \/ HttpCancelOrder
    \/ HttpGetOrder \/ HttpGetOrderBook \/ HttpGetTrades

SpecHttp == InitHttp /\ [][NextHttp]_vars

\* SpecWide: create_order served request by request on the application
\* without a database, with the quantities a u64 holds that matter to the
\* position store: small ones and the smallest that is not an i64.  An order
\* comes from either user, so that a user can trade with themself.
HandlerQtys == {1, 2, I64_MAX + 1}

WideCreateOrder ==
    \E user_id \in Users, price \in ApiPrices, qty \in HandlerQtys,
       side \in Sides, order_type \in OrderTypes, overflow_checks \in BOOLEAN :
        /\ next_id <= ApiOrders
        /\ CreateOrder(user_id, LadderSym, price, qty, side, order_type, overflow_checks)

NextWide == WideCreateOrder

SpecWide == Init /\ [][NextWide]_vars

\* SpecStore: create_order served request by request on the application of
\* main, which has a database, either user submitting orders of quantity 1
\* at one price, so that a position is opened by one trade and closed by
\* another.
StoreQtys == {1}

StoreCreateOrder ==
    \E user_id \in Users, price \in ApiPrices, qty \in StoreQtys, side \in Sides,
       order_type \in OrderTypes, overflow_checks \in BOOLEAN :
        /\ next_id <= DeepOrders
        /\ CreateOrder(user_id, LadderSym, price, qty, side, order_type, overflow_checks)

InitStore ==
    /\ db = EmptyDb
    /\ books = [s \in Symbols |-> EmptyBook]
    /\ next_id = 1
    /\ bus = <<>>
    /\ last = NoOp
    /\ orig = EmptyMap
    /\ pc = [t \in Tasks |-> "idle"]
    /\ req = [t \in Tasks |-> NoOp]
    /\ book_lock = [s \in Symbols |-> FreeLock]
    /\ pos_lock = FreeLock
    /\ positions = EmptyMap
    /\ committed = [s \in Symbols |-> EmptyBook]
    /\ sessions = [s \in Sessions |-> NoSession]
    /\ bus_closed = FALSE
    /\ applied = [n |-> 0, sum |-> EmptyMap]
    /\ ledger = NoLedger

NextStore == StoreCreateOrder

SpecStore == InitStore /\ [][NextStore]_vars

\* ----------------------------------------------- the legs of concurrent requests
\* create_order of two concurrent requests, cut where the handler awaits
\* after the ladder's guard is dropped: "positions.update_position(..).await"
\* of the maker and of the taker of every trade.  A request may be sent for
\* either user.  The future of a handler whose client has gone is dropped at
\* an await.
LegRequestQtys == {1}

\* "let mut book = orderbook.write().await; book.add_order(..)": the section
\* under the guard, whole
LgCreate(t) ==
    \E user_id \in Users, price \in LegPrices, qty \in LegRequestQtys, side \in Sides,
       order_type \in OrderTypes :
        /\ pc[t] = "idle"
        /\ next_id <= DeepOrders
        /\ can_write(book_lock[LadderSym])
        /\ \E r \in {add_order(books[LadderSym], next_id, user_id, price, qty, side,
                               order_type)} :
            /\ books' = [books EXCEPT ![LadderSym] = r.book]
            /\ next_id' = next_id + 1
            /\ bus' = broadcast_orderbook_update(
                          broadcast_trades(bus, LadderSym, r.trades), LadderSym, r.book)
            /\ IF r.trades = <<>>
               THEN UNCHANGED <<pc, req>>
               ELSE /\ Goto(t, "lg_maker")
                    /\ req' = [req EXCEPT ![t] =
                                  [op |-> "create_order", symbol |-> LadderSym,
                                   order |-> r.order, trades |-> r.trades,
                                   i |-> 1, mark |-> 0]]
            /\ ledger' = [ledger EXCEPT
                             !.store = update_positions_from(ledger.store, r.trades, LadderSym,
                                                             side, FALSE, 1).store,
                             !.due = ledger.due + 2 * Len(r.trades)]
        /\ UNCHANGED <<last, orig, book_lock, pos_lock, positions, committed, ws_vars,
                       applied, db>>

\* update_position of the maker of trade i, under the store's guard
LgMakerLeg(t) ==
    /\ pc[t] = "lg_maker"
    /\ can_write(pos_lock)
    /\ \E overflow_checks \in BOOLEAN :
       \E r \in {update_position(positions, req[t].trades[req[t].i].maker_user_id,
                                 req[t].symbol, opposite(req[t].order.side),
                                 req[t].trades[req[t].i].price,
                                 req[t].trades[req[t].i].quantity, overflow_checks)} :
           /\ positions' = r.store
           /\ IF r.panicked
              THEN Goto(t, "idle") /\ req' = [req EXCEPT ![t] = NoOp]
              ELSE Goto(t, "lg_taker") /\ UNCHANGED req
    /\ applied' = [applied EXCEPT !.n = @ + 1]
    /\ UNCHANGED <<books, next_id, bus, last, orig, book_lock, pos_lock, committed, ws_vars,
                   db, ledger>>

\* update_position of the taker of trade i, under the store's guard
LgTakerLeg(t) ==
    /\ pc[t] = "lg_taker"
    /\ can_write(pos_lock)
    /\ \E overflow_checks \in BOOLEAN :
       \E r \in {update_position(positions, req[t].trades[req[t].i].taker_user_id,
                                 req[t].symbol, req[t].order.side,
                                 req[t].trades[req[t].i].price,
                                 req[t].trades[req[t].i].quantity, overflow_checks)} :
           /\ positions' = r.store
           /\ IF req[t].i < Len(req[t].trades) /\ ~r.panicked
              THEN Goto(t, "lg_maker") /\ req' = [req EXCEPT ![t].i = @ + 1]
              ELSE Goto(t, "idle") /\ req' = [req EXCEPT ![t] = NoOp]
    /\ applied' = [applied EXCEPT !.n = @ + 1]
    /\ UNCHANGED <<books, next_id, bus, last, orig, book_lock, pos_lock, committed, ws_vars,
                   db, ledger>>

\* the handler's future is dropped while it awaits the store's guard
LgAbandon(t) ==
    /\ pc[t] \in {"lg_maker", "lg_taker"}
    /\ Goto(t, "idle")
    /\ req' = [req EXCEPT ![t] = NoOp]
    /\ UNCHANGED <<books, next_id, bus, last, orig, book_lock, pos_lock, positions,
                   committed, ws_vars, applied, db, ledger>>

NextLegs == \E t \in Tasks : LgCreate(t) \/ LgMakerLeg(t) \/ LgTakerLeg(t) \/ LgAbandon(t)

SpecLegs == Init /\ [][NextLegs]_vars

\* ------------------------------------------------------ the ladders' guards
\* create_order and cancel_order of two tasks on either symbol, cut at the
\* acquisition of the ladder's guard: a request first waits for it (sy_wait),
\* then runs its section under it (sy_held).  The sections are those of
\* routes.rs 283-294 (add_order), 401-413 (the ownership test under the read
\* guard) and 415-418 (remove_order).

\* the quantity of a request and the order that a cancel names
SymQtys == {1}
SymCancelIds == {1}

\* Mutant: one lock guards every ladder.
the_ladders_lock(symbol) == LadderSym

\* main: "orderbooks.insert((*symbol).to_string(), Arc::new(RwLock::new(book)))",
\* a lock of its own for the ladder of each symbol
own_lock(symbol) == symbol

\* the handler reaches "orderbook.write().await" or "orderbook.read().await"
SyCreate(t) ==
    \E symbol \in Symbols :
        /\ pc[t] = "idle"
        /\ next_id + Cardinality({u \in Tasks : req[u].op = "create_order"}) <= SymOrders
        /\ req' = [req EXCEPT ![t] =
                      [op |-> "create_order", symbol |-> symbol, guard |-> "write",
                       user_id |-> TaskUser(t)]]
        /\ Goto(t, "sy_wait")
        /\ UNCHANGED <<books, next_id, bus, last, orig, ws_vars, book_lock, pos_lock,
                       positions, committed, applied, db, ledger>>

SyCancel(t) ==
    \E symbol \in Symbols, order_id \in SymCancelIds :
        /\ pc[t] = "idle"
        /\ order_id < next_id
        /\ req' = [req EXCEPT ![t] =
                      [op |-> "cancel_order", symbol |-> symbol, guard |-> "read",
                       user_id |-> TaskUser(t), order_id |-> order_id]]
        /\ Goto(t, "sy_wait")
        /\ UNCHANGED <<books, next_id, bus, last, orig, ws_vars, book_lock, pos_lock,
                       positions, committed, applied, db, ledger>>

\* the guard is granted
SyAcquire(t) ==
    /\ pc[t] = "sy_wait"
    /\ IF req[t].guard = "write"
       THEN /\ can_write(book_lock[own_lock(req[t].symbol)])
            /\ book_lock' = [book_lock EXCEPT ![own_lock(req[t].symbol)] = acquire_write(@, t)]
       ELSE /\ can_read(book_lock[own_lock(req[t].symbol)])
            /\ book_lock' = [book_lock EXCEPT ![own_lock(req[t].symbol)] = acquire_read(@, t)]
    /\ Goto(t, "sy_held")
    /\ UNCHANGED <<books, next_id, bus, last, orig, ws_vars, req, pos_lock, positions,
                   committed, applied, db, ledger>>

\* create_order: add_order under the write guard, which is dropped at the
\* end of the block.  The body of the request, which no state bears on, is
\* drawn here.
SyAddOrder(t) ==
    /\ pc[t] = "sy_held"
    /\ req[t].op = "create_order"
    /\ \E price \in ApiPrices, qty \in SymQtys, side \in Sides, order_type \in OrderTypes :
       \E r \in {add_order(books[req[t].symbol], next_id, req[t].user_id, price, qty, side,
                           order_type)} :
        /\ books' = [books EXCEPT ![req[t].symbol] = r.book]
        /\ bus' = broadcast_orderbook_update(
                      broadcast_trades(bus, req[t].symbol, r.trades), req[t].symbol, r.book)
        /\ last' = [op |-> "create_order", symbol |-> req[t].symbol, id |-> next_id,
                    order |-> r.order, trades |-> r.trades, pre |-> books]
    /\ next_id' = next_id + 1
    /\ book_lock' = [book_lock EXCEPT ![own_lock(req[t].symbol)] = release(@, t)]
    /\ Goto(t, "idle")
    /\ req' = [req EXCEPT ![t] = NoOp]
    /\ UNCHANGED <<orig, ws_vars, pos_lock, positions, committed, applied, db, ledger>>

\* cancel_order: the ownership test under the read guard, which is dropped
\* at the end of the block; the owner's request goes on to the write guard
SyCheck(t) ==
    /\ pc[t] = "sy_held"
    /\ req[t].op = "cancel_order"
    /\ req[t].guard = "read"
    /\ book_lock' = [book_lock EXCEPT ![own_lock(req[t].symbol)] = release(@, t)]
    /\ IF \E order \in get_order_by_id(books[req[t].symbol], req[t].order_id) :
              not_owner(order, req[t].user_id)
       THEN Goto(t, "idle") /\ req' = [req EXCEPT ![t] = NoOp]
       ELSE Goto(t, "sy_wait") /\ req' = [req EXCEPT ![t].guard = "write"]
    /\ UNCHANGED <<books, next_id, bus, last, orig, ws_vars, pos_lock, positions,
                   committed, applied, db, ledger>>

\* cancel_order: remove_order under the write guard
SyRemoveOrder(t) ==
    /\ pc[t] = "sy_held"
    /\ req[t].op = "cancel_order"
    /\ req[t].guard = "write"
    /\ \E r \in {remove_order(books[req[t].symbol], req[t].order_id)} :
        /\ books' = [books EXCEPT ![req[t].symbol] = r.book]
        /\ bus' = publish_cancel(bus, req[t].symbol, r)
        /\ last' = [op |-> "cancel_order", symbol |-> req[t].symbol,
                    order_id |-> req[t].order_id, removed |-> r.removed, pre |-> books]
    /\ book_lock' = [book_lock EXCEPT ![own_lock(req[t].symbol)] = release(@, t)]
    /\ Goto(t, "idle")
    /\ req' = [req EXCEPT ![t] = NoOp]
    /\ UNCHANGED <<next_id, orig, ws_vars, pos_lock, positions, committed, applied, db,
                   ledger>>

NextSym ==
    \E t \in Tasks :
        \/ SyCreate(t) \/ SyCancel(t) \/ SyAcquire(t)
        \/ SyAddOrder(t) \/ SyCheck(t) \/ SyRemoveOrder(t)

SpecSym == Init /\ [][NextSym]_vars

\* ------------------------------------------------------ cancels and submits
\* cancel_order and create_order of two tasks on one ladder, a request sent
\* for either user.  cancel_order is cut where it awaits: the read guard, the
\* ownership test under it, the write guard, the removal under it.
\* create_order's section under the write guard is one step.

RECURSIVE fills_from(_, _, _)
\* match_buy_order / match_sell_order: "remaining -= trade_qty" for the taker
\* and "maker.quantity -= trade_qty" for the maker, summed per order
fills_from(filled, trades, i) ==
    IF i > Len(trades) THEN filled
    ELSE LET maker == trades[i].maker_order_id
             taker == trades[i].taker_order_id
             had(f, id) == IF id \in DOMAIN f THEN f[id] ELSE 0
             with_maker == MapPut(filled, maker, had(filled, maker) + trades[i].quantity)
         IN  fills_from(MapPut(with_maker, taker, had(with_maker, taker) + trades[i].quantity),
                        trades, i + 1)

\* Mutant: the handler answers every removal with success.
cancel_response_no_content(removed) == [status |-> "NO_CONTENT"]

\* cancel_order: "match book.remove_order(..) { Some(_) => Ok(NO_CONTENT),
\* None => Err(NOT_FOUND) }"
cancel_response(removed) ==
    IF removed = {} THEN OrderNotFound ELSE [status |-> "NO_CONTENT"]

RcCreate(t) ==
    \E user_id \in Users, price \in ApiPrices, qty \in ApiQtys, side \in Sides,
       order_type \in OrderTypes :
        /\ pc[t] = "idle"
        /\ next_id <= ApiOrders
        /\ can_write(book_lock[LadderSym])
        /\ \E r \in {add_order(books[LadderSym], next_id, user_id, price, qty, side,
                               order_type)} :
            /\ books' = [books EXCEPT ![LadderSym] = r.book]
            /\ bus' = broadcast_orderbook_update(
                          broadcast_trades(bus, LadderSym, r.trades), LadderSym, r.book)
            /\ orig' = IF order_type = "Limit" THEN MapPut(orig, next_id, qty) ELSE orig
            /\ ledger' = [ledger EXCEPT !.filled = fills_from(@, r.trades, 1)]
            /\ last' = [op |-> "create_order", user_id |-> user_id, id |-> next_id,
                        order |-> r.order, trades |-> r.trades]
        /\ next_id' = next_id + 1
        /\ UNCHANGED <<pc, req, book_lock, pos_lock, positions, committed, ws_vars, applied,
                       db>>

\* cancel_order: "let book = orderbook.read().await" for an order id
RcRead(t) ==
    \E user_id \in Users, order_id \in SymCancelIds :
        /\ pc[t] = "idle"
        /\ order_id < next_id
        /\ can_read(book_lock[LadderSym])
        /\ book_lock' = [book_lock EXCEPT ![LadderSym] = acquire_read(@, t)]
        /\ req' = [req EXCEPT ![t] = [op |-> "cancel_order", symbol |-> LadderSym,
                                      user_id |-> user_id, order_id |-> order_id]]
        /\ Goto(t, "rc_check")
        /\ UNCHANGED <<books, next_id, bus, last, orig, ws_vars, pos_lock, positions,
                       committed, applied, db, ledger>>

\* cancel_order: the ownership test under the read guard, which is dropped
\* at the end of the block
RcCheck(t) ==
    /\ pc[t] = "rc_check"
    /\ book_lock' = [book_lock EXCEPT ![req[t].symbol] = release(@, t)]
    /\ IF \E order \in get_order_by_id(books[req[t].symbol], req[t].order_id) :
              not_owner(order, req[t].user_id)
       THEN /\ Goto(t, "idle")
            /\ req' = [req EXCEPT ![t] = NoOp]
            /\ last' = [op |-> "cancel_order", user_id |-> req[t].user_id,
                        order_id |-> req[t].order_id, removed |-> {},
                        response |-> Forbidden]
       ELSE Goto(t, "rc_write") /\ UNCHANGED <<req, last>>
    /\ UNCHANGED <<books, next_id, bus, orig, ws_vars, pos_lock, positions, committed,
                   applied, db, ledger>>

\* cancel_order: "let mut book = orderbook.write().await"
RcWrite(t) ==
    /\ pc[t] = "rc_write"
    /\ can_write(book_lock[req[t].symbol])
    /\ book_lock' = [book_lock EXCEPT ![req[t].symbol] = acquire_write(@, t)]
    /\ Goto(t, "rc_remove")
    /\ UNCHANGED <<books, next_id, bus, last, orig, ws_vars, req, pos_lock, positions,
                   committed, applied, db, ledger>>

\* cancel_order: remove_order under the write guard and the answer; the
\* guard is dropped as the handler returns
RcRemove(t) ==
    /\ pc[t] = "rc_remove"
    /\ \E r \in {remove_order(books[req[t].symbol], req[t].order_id)} :
        /\ books' = [books EXCEPT ![req[t].symbol] = r.book]
        /\ bus' = publish_cancel(bus, req[t].symbol, r)
        /\ ledger' = IF r.removed = {} THEN ledger
                     ELSE [ledger EXCEPT !.cancels =
                              Append(@, [order_id |-> req[t].order_id,
                                         quantity |-> (CHOOSE order \in r.removed : TRUE).quantity])]
        /\ last' = [op |-> "cancel_order", user_id |-> req[t].user_id,
                    order_id |-> req[t].order_id, removed |-> r.removed,
                    response |-> cancel_response(r.removed)]
    /\ book_lock' = [book_lock EXCEPT ![req[t].symbol] = release(@, t)]
    /\ Goto(t, "idle")
    /\ req' = [req EXCEPT ![t] = NoOp]
    /\ UNCHANGED <<next_id, orig, ws_vars, pos_lock, positions, committed, applied, db>>

NextRace ==
    \E t \in Tasks : RcCreate(t) \/ RcRead(t) \/ RcCheck(t) \/ RcWrite(t) \/ RcRemove(t)

SpecRace == Init /\ [][NextRace]_vars

\* ------------------------------------------------------------ the sessions
\* the index of the oldest message the channel still holds
oldest_held(channel, capacity) ==
    IF Len(channel) > capacity THEN Len(channel) - capacity + 1 ELSE 1

\* tokio broadcast Receiver::recv for a receiver whose next message is
\* channel[cursor]: the message, Lagged with the cursor moved to the oldest
\* message held, Closed, or nothing yet
recv(channel, closed, cursor) ==
    IF cursor < oldest_held(channel, BusCapacity) THEN
        [result |-> "Lagged", cursor |-> oldest_held(channel, BusCapacity)]
    ELSE IF cursor <= Len(channel) THEN
        [result |-> "Ok", ws_msg |-> channel[cursor], cursor |-> cursor + 1]
    ELSE IF closed THEN [result |-> "Closed", cursor |-> cursor]
    ELSE [result |-> "Pending", cursor |-> cursor]

\* handle_socket returns
ended(session, reason) == [session EXCEPT !.state = "ended", !.reason = reason]

\* "socket.send(Message::Text(..)).await": the frame is written, or the
\* write fails
socket_send(session, text, write_ok) ==
    IF write_ok THEN [session EXCEPT !.out = Append(@, text)]
    ELSE ended(session, "write_error")

\* Mutant: every message is forwarded, whatever the subscription set.
on_broadcast_unfiltered(session, r, write_ok) ==
    LET moved == [session EXCEPT !.cursor = r.cursor] IN
    IF r.result = "Ok" THEN socket_send(moved, r.ws_msg, write_ok)
    ELSE ended(moved, IF r.result = "Lagged" THEN "lagged" ELSE "bus_closed")

\* handle_socket, the arm of broadcast_receiver.recv()
on_broadcast(session, r, write_ok) ==
    LET moved == [session EXCEPT !.cursor = r.cursor] IN
    IF r.result = "Ok" THEN
        IF r.ws_msg.symbol \in session.subscribed_symbols
        THEN socket_send(moved, r.ws_msg, write_ok)
        ELSE moved
    ELSE \* "Err(_) => return": RecvError::Lagged as well as RecvError::Closed
        ended(moved, IF r.result = "Lagged" THEN "lagged" ELSE "bus_closed")

SubscriptionAck(status, message, symbol) ==
    [status |-> status, message |-> message, symbol |-> symbol]

\* Mutant: a failed write of the answer to a malformed frame ends the session.
on_frame_malformed_returns(session, frame, write_ok) ==
    LET counted == [session EXCEPT !.frames = @ + 1] IN
    IF frame.op \in {"subscribe", "unsubscribe"} THEN
        LET normalized_symbol == to_uppercase(frame.symbol)
            symbol_exists == normalized_symbol \in Symbols
        IN  IF frame.op = "subscribe" THEN
                IF symbol_exists THEN
                    socket_send([counted EXCEPT !.subscribed_symbols = @ \cup {normalized_symbol}],
                                SubscriptionAck("success", <<"Subscribed to", normalized_symbol>>,
                                                {normalized_symbol}),
                                write_ok)
                ELSE socket_send(counted,
                                 SubscriptionAck("error", <<"Symbol not found", normalized_symbol>>, {}),
                                 write_ok)
            ELSE socket_send([counted EXCEPT !.subscribed_symbols = @ \ {normalized_symbol}],
                             SubscriptionAck("success", <<"Unsubscribed from", normalized_symbol>>,
                                             {normalized_symbol}),
                             write_ok)
    ELSE IF frame.op = "malformed" THEN
        socket_send(counted, SubscriptionAck("error", <<"Invalid message format">>, {}), write_ok)
    ELSE IF frame.op = "close" THEN ended(counted, "close")
    ELSE IF frame.op = "read_error" THEN ended(counted, "read_error")
    ELSE IF frame.op = "end_of_stream" THEN ended(counted, "end_of_stream")
    ELSE counted

\* Mutant: unsubscribe validates the symbol as subscribe does.
on_frame_unsubscribe_validated(session, frame, write_ok) ==
    LET counted == [session EXCEPT !.frames = @ + 1] IN
    IF frame.op \in {"subscribe", "unsubscribe"} THEN
        LET normalized_symbol == to_uppercase(frame.symbol)
            symbol_exists == normalized_symbol \in Symbols
        IN  IF ~symbol_exists THEN
                socket_send(counted,
                            SubscriptionAck("error", <<"Symbol not found", normalized_symbol>>, {}),
                            write_ok)
            ELSE IF frame.op = "subscribe" THEN
                socket_send([counted EXCEPT !.subscribed_symbols = @ \cup {normalized_symbol}],
                            SubscriptionAck("success", <<"Subscribed to", normalized_symbol>>,
                                            {normalized_symbol}),
                            write_ok)
            ELSE socket_send([counted EXCEPT !.subscribed_symbols = @ \ {normalized_symbol}],
                             SubscriptionAck("success", <<"Unsubscribed from", normalized_symbol>>,
                                             {normalized_symbol}),
                             write_ok)
    ELSE IF frame.op = "malformed" THEN
        IF write_ok
        THEN socket_send(counted, SubscriptionAck("error", <<"Invalid message format">>, {}), TRUE)
        ELSE counted
    ELSE IF frame.op = "close" THEN ended(counted, "close")
    ELSE IF frame.op = "read_error" THEN ended(counted, "read_error")
    ELSE IF frame.op = "end_of_stream" THEN ended(counted, "end_of_stream")
    ELSE counted

\* handle_socket, the arm of socket.recv()
on_frame(session, frame, write_ok) ==
    LET counted == [session EXCEPT !.frames = @ + 1] IN
    IF frame.op \in {"subscribe", "unsubscribe"} THEN
        LET normalized_symbol == to_uppercase(frame.symbol)
            symbol_exists == normalized_symbol \in Symbols
        IN  IF frame.op = "subscribe" THEN
                IF symbol_exists THEN
                    socket_send([counted EXCEPT !.subscribed_symbols = @ \cup {normalized_symbol}],
                                SubscriptionAck("success", <<"Subscribed to", normalized_symbol>>,
                                                {normalized_symbol}),
                                write_ok)
                ELSE socket_send(counted,
                                 SubscriptionAck("error", <<"Symbol not found", normalized_symbol>>, {}),
                                 write_ok)
            ELSE socket_send([counted EXCEPT !.subscribed_symbols = @ \ {normalized_symbol}],
                             SubscriptionAck("success", <<"Unsubscribed from", normalized_symbol>>,
                                             {normalized_symbol}),
                             write_ok)
    ELSE IF frame.op = "malformed" THEN
        \* "let _ = socket.send(..)": a failed write of this answer is ignored
        IF write_ok
        THEN socket_send(counted, SubscriptionAck("error", <<"Invalid message format">>, {}), TRUE)
        ELSE counted
    ELSE IF frame.op = "close" THEN ended(counted, "close")
    ELSE IF frame.op = "read_error" THEN ended(counted, "read_error")
    ELSE IF frame.op = "end_of_stream" THEN ended(counted, "end_of_stream")
    ELSE counted \* binary, ping, pong

\* what socket.recv() can yield
FrameInputs ==
    {[op |-> a, symbol |-> s] : a \in {"subscribe", "unsubscribe"}, s \in FrameSymbols}
        \cup {[op |-> x] : x \in {"malformed", "close", "read_error", "end_of_stream", "other"}}

\* handle_socket: "state.ws_channel.subscribe()": the receiver starts after
\* the messages sent so far
WsConnect(s) ==
    /\ sessions[s].state = "none"
    /\ sessions' = [sessions EXCEPT ![s] = [NoSession EXCEPT !.state = "open",
                                                              !.cursor = Len(bus) + 1]]
    /\ UNCHANGED <<books, next_id, bus, last, orig, api_vars, bus_closed, applied, db, ledger>>

\* one turn of the loop in which the receiver is ready
WsBroadcast(s) ==
    \E write_ok \in BOOLEAN :
        LET r == recv(bus, bus_closed, sessions[s].cursor) IN
        /\ sessions[s].state = "open"
        /\ r.result # "Pending"
        /\ sessions' = [sessions EXCEPT ![s] = on_broadcast(@, r, write_ok)]
        /\ UNCHANGED <<books, next_id, bus, last, orig, api_vars, bus_closed, applied, db, ledger>>

\* one turn of the loop in which the socket is ready, on a connection whose
\* client sends at most max_frames frames
Frame(s, max_frames) ==
    \E frame \in FrameInputs, write_ok \in BOOLEAN :
        /\ sessions[s].state = "open"
        /\ sessions[s].frames < max_frames
        /\ sessions' = [sessions EXCEPT ![s] = on_frame(@, frame, write_ok)]
        /\ last' = [op |-> "frame", session |-> s, frame |-> frame, write_ok |-> write_ok,
                    pre |-> sessions[s]]
        /\ UNCHANGED <<books, next_id, bus, orig, api_vars, bus_closed, applied, db, ledger>>

WsFrame(s) == Frame(s, MaxFrames)

\* a handler publishes a trade of some symbol (the n-th message carries the
\* trade of orders n and n + 1)
WsPublish ==
    \E symbol \in Symbols :
        /\ ~bus_closed
        /\ Len(bus) < MaxPublished
        /\ can_send(bus, sessions)
        /\ bus' = send_trade(bus, symbol,
                             with_users(create_trade(Len(bus) + 1, Len(bus) + 2, 1, 1),
                                        "alice", "bob"))
        /\ UNCHANGED <<books, next_id, last, orig, api_vars, ws_vars, applied, db, ledger>>

\* the server shuts down: the last Sender is dropped
WsBusClose ==
    /\ ~bus_closed
    /\ bus_closed' = TRUE
    /\ UNCHANGED <<books, next_id, bus, last, orig, api_vars, sessions, applied, db, ledger>>

NextWs ==
    \/ \E s \in Sessions : WsConnect(s) \/ WsBroadcast(s) \/ WsFrame(s)
    \/ WsPublish
    \/ WsBusClose

SpecWs == Init /\ [][NextWs]_vars

\* SpecSub: one connection whose client sends several frames, for the
\* subscription protocol.
TheSession == "s1"

SubFrame == Frame(TheSession, SubFrames)

NextSub ==
    \/ WsConnect(TheSession)
    \/ WsBroadcast(TheSession)
    \/ SubFrame
    \/ WsPublish
    \/ WsBusClose

SpecSub == Init /\ [][NextSub]_vars

\* SpecBus: one task that submits and cancels while connections subscribe to
\* the channel and read from it or fall behind.  Once the task holds the
\* write guard of the ladder its code up to the drop of the guard has no
\* await: the steps under the guard are taken, whatever the connections do.
ThePublisher == "t1"

UnderGuard(t) ==
    \/ CoMatch(t) \/ CoRest(t) \/ CoSendTrade(t) \/ CoSendUpdate(t) \/ CoUnlock(t)
    \/ CaRemove(t) \/ CaFinish(t)

NextBus ==
    \/ CoLock(ThePublisher) \/ UnderGuard(ThePublisher)
    \/ CoLegLock(ThePublisher) \/ CoMakerLeg(ThePublisher) \/ CoTakerLeg(ThePublisher)
    \/ CaRead(ThePublisher) \/ CaCheck(ThePublisher) \/ CaWrite(ThePublisher)
    \/ WsConnect(TheSession) \/ WsBroadcast(TheSession)

SpecBus == Init /\ [][NextBus]_vars /\ WF_vars(UnderGuard(ThePublisher))

\* ----------------------------------------------------------------- claims
TradeQtySum(trades) == SumSeq([i \in 1..Len(trades) |-> trades[i].quantity])

\* the total decrease of remaining quantity over the orders resting before
\* the operation (an order no longer in the map counts as decreased to 0)
MakerDecrease(pre, post) ==
    SumOver([id \in DOMAIN pre.orders |->
                pre.orders[id].quantity -
                (IF id \in DOMAIN post.orders THEN post.orders[id].quantity ELSE 0)],
            DOMAIN pre.orders)

\* C1: Conservation. For every submit the quantities of the trades it emits
\* sum to the order's submitted quantity minus its returned remaining
\* quantity, and to the total decrease of remaining quantity over the makers.
C1_Conservation ==
    last.op = "submit" =>
        /\ TradeQtySum(last.trades) = last.qty - last.order.quantity
        /\ TradeQtySum(last.trades) = MakerDecrease(last.pre, books[last.sym])

\* C1 witness: a submit that traded with two makers, the second only in part.
C1_Witness ==
    /\ last.op = "submit"
    /\ Len(last.trades) = 2
    /\ last.trades[2].maker_order_id \in DOMAIN books[last.sym].orders

\* C2: Price-time priority. Within one submit the trade prices are
\* non-decreasing for a Buy taker and non-increasing for a Sell taker; at one
\* price the makers are consumed in the order they were inserted (ids are
\* given in submission order); and no maker is reached before every maker at
\* a better price, and every maker inserted earlier at the same price, has
\* been consumed in full, also when an earlier submit had filled it in part.
C2_PriceTimePriority ==
    last.op = "submit" =>
        LET ts == last.trades
            pre == last.pre.orders
            ahead(o, t) ==
                /\ pre[o].side = opposite(last.side)
                /\ \/ IF last.side = "Buy" THEN pre[o].price < t.price
                                           ELSE pre[o].price > t.price
                   \/ pre[o].price = t.price /\ o < t.maker_order_id
        IN  /\ \A i, j \in 1..Len(ts) : i < j =>
                /\ IF last.side = "Buy" THEN ts[i].price <= ts[j].price
                                        ELSE ts[i].price >= ts[j].price
                /\ ts[i].price = ts[j].price =>
                        ts[i].maker_order_id < ts[j].maker_order_id
            /\ \A i \in 1..Len(ts) : \A o \in DOMAIN pre :
                ahead(o, ts[i]) =>
                    \E j \in 1..(i - 1) : /\ ts[j].maker_order_id = o
                                          /\ ts[j].quantity = pre[o].quantity

\* C2 witness: one submit consumes two makers of one price, the first of
\* which an earlier submit had filled in part.
C2_Witness ==
    /\ last.op = "submit"
    /\ Len(last.trades) = 2
    /\ last.trades[1].price = last.trades[2].price
    /\ last.pre.orders[last.trades[1].maker_order_id].status = "PartiallyFilled"

\* the clauses of C3 that do not speak of a zero sell price
CrossingRule ==
    LET ts == last.trades
        book == books[last.sym]
        opp == IF last.side = "Buy" THEN book.asks ELSE book.bids
    IN  /\ (last.order_type = "Limit" /\ last.side = "Buy") =>
                \A i \in 1..Len(ts) : ts[i].price <= last.price
        /\ (last.order_type = "Limit" /\ last.side = "Sell") =>
                \A i \in 1..Len(ts) : ts[i].price >= last.price
        /\ last.order_type = "Market" =>
                /\ last.order.quantity = 0 \/ DOMAIN opp = {}
                /\ \A p \in Prices :
                      \E r \in {add_order(last.pre, last.id, last.user, p, last.qty,
                                          last.side, "Market")} :
                          r.trades = ts /\ r.book = book

\* C3 as amended: every trade of a Limit Buy is at or below its limit, every
\* trade of a Limit Sell at or above it; a Limit Sell at price zero matches
\* until it is filled or no bid at a price >= 0 is left; a Market order
\* matches whatever its price until it is filled or the opposite side is empty.
C3_Crossing ==
    last.op = "submit" =>
        /\ CrossingRule
        /\ (last.order_type = "Limit" /\ last.side = "Sell" /\ last.price = 0) =>
                \/ last.order.quantity = 0
                \/ \A p \in DOMAIN books[last.sym].bids : p < 0

\* C3 as claimed: a Limit Sell at price zero crosses every bid, so it
\* matches until it is filled or no bid is left.
C3_Original ==
    last.op = "submit" =>
        /\ CrossingRule
        /\ (last.order_type = "Limit" /\ last.side = "Sell" /\ last.price = 0) =>
                \/ last.order.quantity = 0
                \/ DOMAIN books[last.sym].bids = {}

\* C3 witness: a Limit Sell at price zero took a bid and rests with a bid at
\* a negative price left uncrossed.
C3_Witness ==
    /\ last.op = "submit"
    /\ last.order_type = "Limit" /\ last.side = "Sell" /\ last.price = 0
    /\ Len(last.trades) >= 1
    /\ last.order.quantity > 0
    /\ DOMAIN books[last.sym].bids # {}

LevelsOk(book, levels, side) ==
    \A p \in DOMAIN levels :
        /\ levels[p] # <<>>
        /\ \A i \in 1..Len(levels[p]) :
              /\ levels[p][i] \in DOMAIN book.orders
              /\ book.orders[levels[p][i]].side = side
              /\ book.orders[levels[p][i]].price = p

\* C4: Ladder hygiene. After every operation every id in a queue has a
\* record, the record's side and price are those of the queue that holds
\* the id, and no price level has an empty queue.
C4_LadderHygiene ==
    \A s \in Symbols :
        /\ LevelsOk(books[s], books[s].bids, "Buy")
        /\ LevelsOk(books[s], books[s].asks, "Sell")

\* C4 witness: a cancel emptied a price level while another order rests.
C4_Witness ==
    /\ last.op = "cancel"
    /\ \E o \in last.removed :
          o.price \notin DOMAIN (IF o.side = "Buy" THEN books[last.sym].bids
                                                  ELSE books[last.sym].asks)
    /\ DOMAIN books[last.sym].orders # {}

StatusLaw(status, remaining, original) ==
    /\ status = "Filled" <=> remaining = 0
    /\ status = "PartiallyFilled" <=> (0 < remaining /\ remaining < original)
    /\ status = "Pending" <=> ~(remaining = 0) /\ ~(0 < remaining /\ remaining < original)

\* C5: Status law. After every matching step the incoming order and the
\* maker of the step have status Filled iff nothing remains, PartiallyFilled
\* iff something but less than the submitted quantity remains, and Pending
\* otherwise; and so has every order resting in the ladder.
C5_StatusLaw ==
    /\ last.op = "submit" =>
          \A i \in 1..Len(last.steps) :
              /\ StatusLaw(last.steps[i].taker.status, last.steps[i].taker.quantity, last.qty)
              /\ StatusLaw(last.steps[i].maker.status, last.steps[i].maker.quantity,
                           last.pre_orig[last.steps[i].maker.id])
    /\ \A s \in Symbols : \A id \in DOMAIN books[s].orders :
          StatusLaw(books[s].orders[id].status, books[s].orders[id].quantity, orig[id])

\* C5 witness: a step on a maker that an earlier taker had filled in part
\* and that this taker fills in part again.
C5_Witness ==
    /\ last.op = "submit"
    /\ \E i \in 1..Len(last.steps) :
          /\ last.pre.orders[last.steps[i].maker.id].status = "PartiallyFilled"
          /\ last.steps[i].maker.status = "PartiallyFilled"

\* C6: A Market order never rests. After a Market submit its id is in no
\* queue and in no record, its own side is as before, and the returned order
\* carries the unfilled remainder with the status the match produced.
C6_MarketNeverRests ==
    (last.op = "submit" /\ last.order_type = "Market") =>
        LET book == books[last.sym] IN
        /\ last.id \notin DOMAIN book.orders
        /\ \A p \in DOMAIN book.bids : ~InSeq(last.id, book.bids[p])
        /\ \A p \in DOMAIN book.asks : ~InSeq(last.id, book.asks[p])
        /\ IF last.side = "Buy" THEN book.bids = last.pre.bids
                                ELSE book.asks = last.pre.asks
        /\ IF last.side = "Buy" THEN get_bids(book) = get_bids(last.pre)
                                ELSE get_asks(book) = get_asks(last.pre)
        /\ last.order.quantity = last.qty - TradeQtySum(last.trades)
        /\ last.order.status = IF last.trades = <<>> THEN "Pending"
                               ELSE IF last.order.quantity = 0 THEN "Filled"
                               ELSE "PartiallyFilled"

\* C6 witness: a Market order filled in part, with a remainder to drop.
C6_Witness ==
    /\ last.op = "submit" /\ last.order_type = "Market"
    /\ last.trades # <<>>
    /\ last.order.quantity > 0

\* C7 as claimed: a positions reader never reads the store in a state in
\* which exactly one of the two legs of a trade has been applied.
C7_LegsAtomic ==
    \A t \in Tasks : pc[t] = "gp_read" => ~one_sided

\* the points of a handler at which it holds the write guard of its ladder,
\* and those at which it holds a read guard
WriterPcs == {"co_match", "co_rest", "co_send", "co_unlock", "ca_remove", "ca_finish"}
ReaderPcs == {"ca_check", "rd_read"}

\* C8: Submit is atomic with respect to its ladder. While a submit (or a
\* cancel) is between taking and dropping the write guard, which spans its
\* first trade and its OrderBookUpdate, no other task is at a point where it
\* changes or reads that ladder; and a reader that holds the read guard reads
\* the ladder as the last finished writer left it: the state before a submit
\* or the state after it, never one in between.
C8_SubmitAtomic ==
    \A t \in Tasks :
        /\ pc[t] \in WriterPcs =>
              /\ book_lock[req[t].symbol].writer = {t}
              /\ \A u \in Tasks \ {t} :
                    pc[u] \in WriterPcs \cup ReaderPcs => req[u].symbol # req[t].symbol
        /\ pc[t] = "rd_read" =>
              reads(t) = view(req[t].op, committed[req[t].symbol], req[t].user_id,
                              req[t].order_id)
        /\ pc[t] = "ca_check" =>
              get_order_by_id(books[req[t].symbol], req[t].order_id)
                  = get_order_by_id(committed[req[t].symbol], req[t].order_id)

\* C8 witness: a submit has sent its first trade and not yet its update, the
\* ladder differs from what readers last saw, and the other task, which is
\* not inside a handler, can take neither guard.
C8_Witness ==
    \E t \in Tasks : \E u \in Tasks \ {t} :
        /\ pc[t] = "co_send" /\ req[t].i > 1
        /\ books[req[t].symbol] # committed[req[t].symbol]
        /\ pc[u] = "idle"
        /\ ~can_read(book_lock[req[t].symbol])

\* C9: Publication ordering. When a submit that executed k >= 0 trades has
\* sent its OrderBookUpdate, the messages the bus received since the submit
\* began are exactly its k Trade messages in execution order followed by one
\* OrderBookUpdate with the depth of the ladder as the submit leaves it; and
\* while it is still sending, they are exactly the trades sent so far: no
\* message of another submit lies among them.
C9_PublicationOrder ==
    \A t \in Tasks :
        LET q == req[t] IN
        /\ pc[t] = "co_send" =>
              /\ Len(bus) = q.mark + q.i - 1
              /\ \A j \in 1..(q.i - 1) :
                    bus[q.mark + j] = [type |-> "Trade", symbol |-> q.symbol,
                                       trade |-> q.trades[j]]
        /\ pc[t] = "co_unlock" =>
              /\ Len(bus) = q.mark + Len(q.trades) + 1
              /\ \A j \in 1..Len(q.trades) :
                    bus[q.mark + j] = [type |-> "Trade", symbol |-> q.symbol,
                                       trade |-> q.trades[j]]
              /\ bus[Len(bus)] = [type |-> "OrderBookUpdate", symbol |-> q.symbol,
                                  bids |-> get_bids(books[q.symbol]),
                                  asks |-> get_asks(books[q.symbol])]

\* C9 witness: a submit that executed two trades has sent its update, on a
\* bus that held messages of earlier submits.
C9_Witness ==
    \E t \in Tasks :
        /\ pc[t] = "co_unlock"
        /\ Len(req[t].trades) = 2
        /\ req[t].mark > 0

\* the ways the specification lets a session end
AllowedEnds == {"close", "read_error", "end_of_stream", "write_error", "bus_closed"}

\* C10 as claimed: a session that lagged past the buffer of the bus keeps
\* running; a session ends only on a Close frame, a read error or the end
\* of the stream, a write error, or the closing of the bus.
C10_LossyNotDisconnected ==
    \A s \in Sessions : sessions[s].state = "ended" => sessions[s].reason \in AllowedEnds

\* what cancel leaves of the price levels of the removed order's side: its
\* id is gone from its queue, the level is gone if that emptied it
LevelsWithout(levels, after, order_id) ==
    /\ DOMAIN after \subseteq DOMAIN levels
    /\ \A p \in DOMAIN levels :
          LET rest == SelectSeq(levels[p], LAMBDA oid : oid # order_id) IN
          IF rest = <<>> THEN p \notin DOMAIN after
          ELSE p \in DOMAIN after /\ after[p] = rest

\* C11: Cancel. A cancel of an order that rests in the ladder and belongs to
\* the actor removes its record and its queue entry, drops the level if that
\* emptied it, and returns the removed record; a cancel by another user is
\* answered Forbidden (the handler returns from the ownership test) and a
\* cancel of an id that does not rest is answered OrderNotFound (the removal
\* returns nothing); in both failure cases queues, records and trade ring
\* are unchanged.
C11_Cancel ==
    [][\A t \in Tasks :
        LET q == req[t]
            book == books[q.symbol]
            found == get_order_by_id(book, q.order_id)
        IN  /\ (pc[t] = "ca_check" /\ pc'[t] = "idle") =>
                  /\ \E order \in found : order.user_id # q.user_id
                  /\ books' = books
            /\ (pc[t] = "ca_check" /\ pc'[t] = "ca_write") =>
                  /\ \A order \in found : order.user_id = q.user_id
                  /\ books' = books
            /\ (pc[t] = "ca_remove" /\ pc'[t] = "ca_finish") =>
                  /\ \A s \in Symbols \ {q.symbol} : books'[s] = books[s]
                  /\ IF found = {}
                     THEN req'[t].removed = {} /\ books' = books
                     ELSE \E order \in found :
                            LET after == books'[q.symbol] IN
                            /\ order.user_id = q.user_id
                            /\ req'[t].removed = {order}
                            /\ after.orders = MapRemove(book.orders, q.order_id)
                            /\ after.trades = book.trades
                            /\ IF order.side = "Buy"
                               THEN /\ LevelsWithout(book.bids, after.bids, q.order_id)
                                    /\ after.asks = book.asks
                               ELSE /\ LevelsWithout(book.asks, after.asks, q.order_id)
                                    /\ after.bids = book.bids
      ]_vars

\* C11 witness: the owner's cancel has removed an order from a level in
\* which another order still rests.
C11_Witness ==
    \E t \in Tasks :
        /\ pc[t] = "ca_finish"
        /\ \E order \in req[t].removed :
              /\ order.user_id = req[t].user_id
              /\ LET levels == IF order.side = "Buy" THEN books[req[t].symbol].bids
                                                     ELSE books[req[t].symbol].asks
                 IN  order.price \in DOMAIN levels

\* the stored quantity of a key, zero for an absent position
StoredQty(store, key) == IF key \in DOMAIN store THEN store[key].quantity ELSE 0

\* C12 as claimed: Position round-trip. For every (user, symbol) the signed
\* sum of the deltas applied so far (+qty for a Buy, -qty for a Sell) equals
\* the stored quantity, or zero if the position is absent.
C12_RoundTrip ==
    \A user_id \in Users : \A symbol \in LegSymbols :
        LET key == <<user_id, to_uppercase(symbol)>> IN
        StoredQty(positions, key) = IF key \in DOMAIN applied.sum THEN applied.sum[key] ELSE 0

\* C13 as claimed: No zero position. After any sequence of legs (any side,
\* price and unsigned quantity) every position in the store has a quantity
\* other than zero, and after a leg that brings an existing position to
\* exactly zero the positions of the user no longer list that symbol.
C13_NoZeroPosition ==
    /\ \A key \in DOMAIN positions : positions[key].quantity # 0
    /\ (last.op = "apply_leg" /\ ~last.panicked) =>
          LET key == <<last.user_id, to_uppercase(last.symbol)>> IN
          (key \in DOMAIN last.pre
             /\ last.pre[key].quantity + leg_delta(last.side, last.qty) = 0) =>
                \A pos \in get_positions(positions, last.user_id, {}) :
                    pos.symbol # to_uppercase(last.symbol)

\* C14 as claimed: Weighted-average cost. A first leg for a (user, symbol)
\* creates the position with quantity = delta and average_price = the leg's
\* price; a leg in the direction of the existing position (a Buy on a long,
\* a Sell on a short) leaves quantity = old + delta and average_price =
\* (old_avg * old + price * delta) / (old + delta), the division truncated
\* toward zero.
C14_WeightedAverage ==
    (last.op = "apply_leg" /\ ~last.panicked) =>
        LET key == <<last.user_id, to_uppercase(last.symbol)>>
            delta == leg_delta(last.side, last.qty)
        IN  /\ key \notin DOMAIN last.pre =>
                  /\ key \in DOMAIN positions
                  /\ positions[key] = [quantity |-> delta, average_price |-> last.price]
            /\ key \in DOMAIN last.pre =>
                  LET old == last.pre[key].quantity
                      old_avg == last.pre[key].average_price
                  IN  ((old > 0 /\ delta > 0) \/ (old < 0 /\ delta < 0)) =>
                          /\ key \in DOMAIN positions
                          /\ positions[key].quantity = old + delta
                          /\ positions[key].average_price =
                                trunc_div(old_avg * old + last.price * delta, old + delta)

\* C15 as claimed: Reduction and flip preserve cost. A leg against the
\* direction of the existing position (a Sell on a long, a Buy on a short)
\* whose result is not zero leaves quantity = old + delta and the average
\* price as it was, also when the position changes sign.
C15_ReductionKeepsCost ==
    (last.op = "apply_leg" /\ ~last.panicked) =>
        LET key == <<last.user_id, to_uppercase(last.symbol)>>
            delta == leg_delta(last.side, last.qty)
        IN  key \in DOMAIN last.pre =>
                LET old == last.pre[key].quantity
                    old_avg == last.pre[key].average_price
                IN  (((old > 0 /\ delta < 0) \/ (old < 0 /\ delta > 0)) /\ old + delta # 0) =>
                        /\ key \in DOMAIN positions
                        /\ positions[key].quantity = old + delta
                        /\ positions[key].average_price = old_avg

\* the queue of a price level, empty for a price that has no level
QueueAt(levels, price) == IF price \in DOMAIN levels THEN levels[price] ELSE <<>>

\* C16: Limit remainder rests at the tail. A Limit order with a remainder
\* after matching is stored with exactly that remainder, on its own side, at
\* its own limit price whatever the prices it traded at, as the last entry
\* of that level's queue behind the entries the level had, also when part of
\* it was just filled; no other level of its side changes.  A Limit order
\* filled to zero is stored in no queue and in no record.
C16_LimitRestsAtTail ==
    (last.op = "submit" /\ last.order_type = "Limit") =>
        LET book == books[last.sym]
            own == IF last.side = "Buy" THEN book.bids ELSE book.asks
            pre_own == IF last.side = "Buy" THEN last.pre.bids ELSE last.pre.asks
            opp == IF last.side = "Buy" THEN book.asks ELSE book.bids
        IN  /\ \A p \in DOMAIN opp : ~InSeq(last.id, opp[p])
            /\ IF last.qty - TradeQtySum(last.trades) > 0
               THEN /\ last.id \in DOMAIN book.orders
                    /\ book.orders[last.id].quantity = last.qty - TradeQtySum(last.trades)
                    /\ book.orders[last.id].side = last.side
                    /\ book.orders[last.id].price = last.price
                    /\ DOMAIN own = DOMAIN pre_own \cup {last.price}
                    /\ \A p \in DOMAIN own :
                          own[p] = IF p = last.price
                                   THEN QueueAt(pre_own, p) \o <<last.id>>
                                   ELSE pre_own[p]
               ELSE /\ last.id \notin DOMAIN book.orders
                    /\ own = pre_own

\* C16 witness: a Limit order traded at a price other than its limit and
\* rests with what is left of it.
C16_Witness ==
    /\ last.op = "submit" /\ last.order_type = "Limit"
    /\ last.trades # <<>>
    /\ last.trades[Len(last.trades)].price # last.price
    /\ last.id \in DOMAIN books[last.sym].orders

\* the ring after a step still holds, unchanged and in order, the trades it
\* held before, but for the oldest ones it may have dropped
RingKeeps(old, new) ==
    \E k \in 0..Len(old) :
        /\ Len(new) >= Len(old) - k
        /\ SubSeq(new, 1, Len(old) - k) = SubSeq(old, k + 1, Len(old))

\* C17: Trade record. Every trade a submit emits has a quantity above zero
\* that is the smaller of what the taker and the maker had left before the
\* step, the price at which the maker rested, the order id and user of the
\* resting order as maker and those of the incoming order as taker; the
\* trades (the newest of them, if they are more than the ring holds) are in
\* the ring as emitted, and no later step changes a trade the ring holds.
C17_TradeRecord ==
    /\ [](last.op = "submit" =>
            LET ts == last.trades
                ring == books[last.sym].trades
                kept == IF Len(ts) < MAX_TRADES THEN Len(ts) ELSE MAX_TRADES
            IN  /\ SubSeq(ring, Len(ring) - kept + 1, Len(ring))
                      = SubSeq(ts, Len(ts) - kept + 1, Len(ts))
                /\ \A i \in 1..Len(ts) :
                      LET taker_left == last.qty - TradeQtySum(SubSeq(ts, 1, i - 1))
                          maker_id == ts[i].maker_order_id
                      IN  /\ maker_id \in DOMAIN last.pre.orders
                          /\ ts[i].quantity > 0
                          /\ ts[i].quantity =
                                IF taker_left < last.pre.orders[maker_id].quantity
                                THEN taker_left ELSE last.pre.orders[maker_id].quantity
                          /\ ts[i].price = last.pre.orders[maker_id].price
                          /\ last.pre.orders[maker_id].side = opposite(last.side)
                          /\ ts[i].maker_user_id = last.pre.orders[maker_id].user_id
                          /\ ts[i].taker_order_id = last.id
                          /\ ts[i].taker_user_id = last.user)
    /\ [][\A s \in Symbols : RingKeeps(books[s].trades, books'[s].trades)]_vars

\* C17 witness: a submit larger than what its maker had left after an
\* earlier trade emitted a trade into a ring that held that earlier trade.
C17_Witness ==
    /\ last.op = "submit"
    /\ Len(last.trades) = 1
    /\ last.trades[1].quantity < last.qty
    /\ last.pre.orders[last.trades[1].maker_order_id].status = "PartiallyFilled"
    /\ Len(books[last.sym].trades) = 2

\* the last n elements of a sequence, all of it if it has no more than n
LastN(s, n) == IF Len(s) > n THEN SubSeq(s, Len(s) - n + 1, Len(s)) ELSE s

\* C20: Trade ring bound. The ring never holds more than MAX_TRADES trades;
\* after a submit it holds the newest MAX_TRADES of the trades it held
\* followed by the trades the submit executed, in execution order, so that
\* the oldest are the ones evicted, also when one submit emits several
\* trades that push the ring past its capacity; a cancel leaves it as it was.
C20_TradeRingBound ==
    /\ \A s \in Symbols : Len(books[s].trades) <= MAX_TRADES
    /\ last.op = "submit" =>
          books[last.sym].trades = LastN(last.pre.trades \o last.trades, MAX_TRADES)
    /\ last.op = "cancel" => books[last.sym].trades = last.pre.trades

\* C20 witness: one submit emitted two trades into a ring that held a
\* trade, and the oldest trade was evicted.
C20_Witness ==
    /\ last.op = "submit"
    /\ Len(last.trades) >= 2
    /\ last.pre.trades # <<>>
    /\ Len(last.pre.trades) + Len(last.trades) > MAX_TRADES
    /\ books[last.sym].trades = last.trades

\* the resting records of a side at a price
RestingAt(book, side, price) ==
    {id \in DOMAIN book.orders : book.orders[id].side = side /\ book.orders[id].price = price}

\* C18 as claimed: Depth accuracy. For each side and each price p, the
\* depth of the side reports at p exactly the sum of the remaining
\* quantities of the resting records of that side and price (and nothing at
\* a price at which none rests).
C18_DepthAccuracy ==
    (last.op = "depth" /\ ~last.panicked) =>
        \A side \in Sides : \A p \in DeepPrices :
            LET book == books[last.sym]
                depth == IF side = "Buy" THEN last.bids ELSE last.asks
                recs == RestingAt(book, side, p)
                total == SumOver([id \in recs |-> book.orders[id].quantity], recs)
            IN  IF recs = {} THEN \A i \in 1..Len(depth) : depth[i][1] # p
                ELSE \E i \in 1..Len(depth) : depth[i] = <<p, total>>

\* C19 as claimed: Depth shape. The depth of a side lists each price that
\* has resting orders exactly once, bids in strictly descending and asks in
\* strictly ascending order of price, and no pair whose total is zero.
C19_DepthShape ==
    (last.op = "depth" /\ ~last.panicked) =>
        \A side \in Sides :
            LET book == books[last.sym]
                depth == IF side = "Buy" THEN last.bids ELSE last.asks
            IN  /\ {depth[i][1] : i \in 1..Len(depth)}
                      = {p \in DeepPrices : RestingAt(book, side, p) # {}}
                /\ \A i, j \in 1..Len(depth) : i < j =>
                      IF side = "Buy" THEN depth[i][1] > depth[j][1]
                                      ELSE depth[i][1] < depth[j][1]
                /\ \A i \in 1..Len(depth) : depth[i][2] # 0

\* C21: Recent trades. get_recent_trades(limit) returns min(limit, ring
\* length) trades, the i-th of them the i-th newest of the ring (which holds
\* the trades in execution order); the trades of the submit that preceded the
\* query come first, the last executed first; a limit of zero returns the
\* empty list.
C21_RecentTrades ==
    last.op = "recent_trades" =>
        LET ring == books[last.sym].trades
            n == IF last.limit < Len(ring) THEN last.limit ELSE Len(ring)
        IN  /\ Len(last.trades) = n
            /\ \A i \in 1..n : last.trades[i] = ring[Len(ring) + 1 - i]
            /\ last.limit = 0 => last.trades = <<>>
            /\ last.prev.op = "submit" =>
                  LET ts == last.prev.trades IN
                  \A i \in 1..Len(ts) :
                      (i <= n /\ i <= MAX_TRADES) => last.trades[i] = ts[Len(ts) + 1 - i]

\* C21 witness: a query with a limit below the ring's length, after a submit
\* that executed two trades, returned the second of them only.
C21_Witness ==
    /\ last.op = "recent_trades"
    /\ last.limit = 1
    /\ last.prev.op = "submit"
    /\ Len(last.prev.trades) = 2
    /\ last.trades = <<last.prev.trades[2]>>

\* the depth of a side as the records give it: every price at which a
\* record of the side rests, in the side's order, with the exact sum of the
\* remaining quantities of those records
RecordDepth(book, side) ==
    LET prices == {book.orders[id].price :
                     id \in {x \in DOMAIN book.orders : book.orders[x].side = side}}
        ps == IF side = "Buy" THEN Descending(prices) ELSE Ascending(prices)
    IN  [i \in 1..Len(ps) |->
           <<ps[i], SumOver([id \in RestingAt(book, side, ps[i]) |-> book.orders[id].quantity],
                            RestingAt(book, side, ps[i]))>>]

\* C22 as claimed: Book updates track mutations. Every submit or cancel
\* that changes the depth of a side publishes an OrderBookUpdate for the
\* symbol, and every OrderBookUpdate it publishes carries as bids and asks
\* the depth of the ladder as the call leaves it.
C22_UpdatesTrackMutations ==
    (last.op \in {"submit", "cancel"}) =>
        LET book == books[last.sym]
            sent == SubSeq(bus, last.mark + 1, Len(bus))
            updates == {i \in 1..Len(sent) : sent[i].type = "OrderBookUpdate"}
        IN  /\ (\E side \in Sides : RecordDepth(book, side) # RecordDepth(last.pre, side)) =>
                  \E i \in updates : sent[i].symbol = last.sym
            /\ \A i \in updates :
                  /\ sent[i].symbol = last.sym
                  /\ sent[i].bids = RecordDepth(book, "Buy")
                  /\ sent[i].asks = RecordDepth(book, "Sell")

\* what a session wrote to its client: a forwarded bus message, or an
\* acknowledgement
IsForwarded(text) == "type" \in DOMAIN text
IsAck(text, status, verb, symbol) ==
    /\ "status" \in DOMAIN text
    /\ text.status = status
    /\ text.message[1] = verb
    /\ text.symbol = {symbol}

\* every message for a symbol that the session forwarded comes after a
\* successful subscribe to the symbol, with no acknowledged unsubscribe of
\* it in between
ForwardedWhileSubscribed(out) ==
    \A j \in 1..Len(out) :
        IsForwarded(out[j]) =>
            \E i \in 1..(j - 1) :
                /\ IsAck(out[i], "success", "Subscribed to", out[j].symbol)
                /\ \A k \in (i + 1)..(j - 1) :
                      ~IsAck(out[k], "success", "Unsubscribed from", out[j].symbol)

\* a step in which the session forwards takes the message at its cursor,
\* whose symbol is in the subscription set at that moment
ForwardsOnlySubscribed(s) ==
    LET before == sessions[s]
        after == sessions'[s]
    IN  (Len(after.out) = Len(before.out) + 1 /\ IsForwarded(after.out[Len(after.out)])) =>
            /\ before.cursor <= Len(bus)
            /\ after.out[Len(after.out)] = bus[before.cursor]
            /\ bus[before.cursor].symbol \in before.subscribed_symbols
            /\ after.cursor = before.cursor + 1

\* C23: Subscription filter. A session forwards a bus message only if the
\* message's symbol is in its subscription set when the message is taken
\* from the bus; a session that has subscribed to nothing forwards nothing;
\* and once it has acknowledged the unsubscribe of a symbol it forwards no
\* message for that symbol taken afterwards (until a later subscribe).
C23_SubscriptionFilter ==
    /\ [](\A s \in Sessions : ForwardedWhileSubscribed(sessions[s].out))
    /\ [][\A s \in Sessions : ForwardsOnlySubscribed(s)]_vars

\* C23 witness: a session forwarded a message for a symbol, acknowledged the
\* unsubscribe of it and then took another message for it without
\* forwarding it.
C23_Witness ==
    \E s \in Sessions :
        LET out == sessions[s].out IN
        /\ Len(out) = 3
        /\ IsForwarded(out[2])
        /\ IsAck(out[3], "success", "Unsubscribed from", out[2].symbol)
        /\ sessions[s].cursor = 3
        /\ bus[2].symbol = out[2].symbol

\* the session as the control frame recorded in last has left it
SubscribeAnswered ==
    (last.op = "frame" /\ last.frame.op \in {"subscribe", "unsubscribe"}) =>
        LET before == last.pre
            after == sessions[last.session]
            symbol == to_uppercase(last.frame.symbol)
            known == symbol \in Symbols
            set == IF last.frame.op = "unsubscribe" THEN before.subscribed_symbols \ {symbol}
                   ELSE IF known THEN before.subscribed_symbols \cup {symbol}
                   ELSE before.subscribed_symbols
            written == after.out[Len(after.out)]
        IN  /\ after.subscribed_symbols = set
            /\ (symbol \in before.subscribed_symbols /\ last.frame.op = "subscribe") =>
                  after.subscribed_symbols = before.subscribed_symbols
            /\ (symbol \notin before.subscribed_symbols /\ last.frame.op = "unsubscribe") =>
                  after.subscribed_symbols = before.subscribed_symbols
            /\ IF last.write_ok
               THEN /\ after.state = "open"
                    /\ Len(after.out) = Len(before.out) + 1
                    /\ SubSeq(after.out, 1, Len(before.out)) = before.out
                    /\ "status" \in DOMAIN written
                    /\ written.status = IF last.frame.op = "subscribe" /\ ~known
                                        THEN "error" ELSE "success"
                    /\ written.symbol = IF last.frame.op = "subscribe" /\ ~known
                                        THEN {} ELSE {symbol}
               ELSE /\ after.state = "ended" /\ after.reason = "write_error"
                    /\ after.out = before.out

\* C24: Subscribe / unsubscribe protocol. A well-formed control frame is
\* answered with exactly one acknowledgement (written to the client, or the
\* session ends on the failed write): a subscribe to a symbol that, in upper
\* case, is in the registry puts it in the set and acknowledges success with
\* the symbol; a subscribe to an unknown symbol acknowledges an error and
\* leaves the set as it was; an unsubscribe takes the symbol out of the set
\* and acknowledges success, whether or not the symbol is known or was in
\* the set.  A repeated subscribe or unsubscribe leaves the set as the first
\* left it.
C24_SubscribeProtocol == [][last' # last => SubscribeAnswered']_vars

\* C24 witness: a session subscribed to a symbol has acknowledged with
\* success the unsubscribe of a symbol that is not in the registry.
C24_Witness ==
    /\ last.op = "frame" /\ last.frame.op = "unsubscribe" /\ last.write_ok
    /\ to_uppercase(last.frame.symbol) \notin Symbols
    /\ last.pre.subscribed_symbols # {}
    /\ sessions[last.session].subscribed_symbols = last.pre.subscribed_symbols
    /\ Len(sessions[last.session].out) = Len(last.pre.out) + 1
    /\ sessions[last.session].out[Len(sessions[last.session].out)].status = "success"

\* the session as the frame recorded in last, if it is no control frame, has
\* left it
OtherFrameHandled ==
    last.op = "frame" =>
        LET before == last.pre
            after == sessions[last.session]
        IN  /\ last.frame.op = "malformed" =>
                  /\ after.state = "open"
                  /\ after.subscribed_symbols = before.subscribed_symbols
                  /\ after.cursor = before.cursor
                  /\ after.out = IF last.write_ok
                                 THEN Append(before.out,
                                             SubscriptionAck("error", <<"Invalid message format">>, {}))
                                 ELSE before.out
            /\ last.frame.op = "other" =>
                  /\ after.state = "open"
                  /\ after.subscribed_symbols = before.subscribed_symbols
                  /\ after.cursor = before.cursor
                  /\ after.out = before.out
            /\ last.frame.op = "close" =>
                  /\ after.state = "ended" /\ after.reason = "close"
                  /\ after.out = before.out

\* C25: Malformed and other frames. A malformed text frame is answered with
\* one error acknowledgement, leaves the subscription set as it was and does
\* not end the session (not even when the write of the answer fails); a
\* binary, ping or pong frame is ignored, with no acknowledgement and no
\* change of the session; a Close frame ends the session.
C25_MalformedAndOtherFrames == [][last' # last => OtherFrameHandled']_vars

\* C25 witness: a session with a subscription has answered a malformed
\* frame and is still open.
C25_Witness ==
    /\ last.op = "frame" /\ last.frame.op = "malformed" /\ last.write_ok
    /\ last.pre.subscribed_symbols # {}
    /\ sessions[last.session].state = "open"
    /\ Len(sessions[last.session].out) = Len(last.pre.out) + 1
    /\ sessions[last.session].out[Len(last.pre.out) + 1].status = "error"

\* C26: No subscriber blocks a publisher. A task that holds the write guard
\* of a ladder in a submit or a cancel gets through its sends and drops the
\* guard, whatever the number of connections and however far any of them
\* has fallen behind: no step of the connections is needed for it.
C26_PublisherNeverBlocked ==
    \A t \in Tasks : (pc[t] \in WriterPcs) ~> (pc[t] \notin WriterPcs)

\* C26 witness: a submit is about to send while a connection has fallen
\* behind by more than the channel holds, and another has not connected.
C26_Witness ==
    \E t \in Tasks :
        /\ pc[t] = "co_send"
        /\ \E s \in Sessions :
              /\ sessions[s].state = "open"
              /\ sessions[s].cursor < oldest_held(bus, BusCapacity)
        /\ \E s \in Sessions : sessions[s].state = "none"

\* C27: a Market submit that executes no trade comes back from matching
\* with an empty trade list and its order Pending with the full quantity,
\* is answered NoLiquidity, and leaves every ladder (queues, records, trade
\* ring) and the position store as they were.
C27_NoLiquidity ==
    (last.op = "create_order" /\ last.response # SymbolNotFound
        /\ last.order_type = "Market" /\ last.trades = <<>>) =>
        /\ last.order.status = "Pending"
        /\ last.order.quantity = last.qty
        /\ last.response = NoLiquidity
        /\ books = last.pre.books
        /\ positions = last.pre.positions

\* A Market Buy answered NoLiquidity on a ladder that has resting bids, a
\* trade in its ring and positions in the store.
C27_Witness ==
    /\ last.op = "create_order" /\ last.response = NoLiquidity
    /\ last.order.side = "Buy"
    /\ books[LadderSym].bids # EmptyMap
    /\ books[LadderSym].trades # <<>>
    /\ positions # EmptyMap

\* the registry's name of the symbol of the last request
Addressed == to_uppercase(last.symbol)

\* the other ladders are as they were before the last request
OthersUntouched == \A s \in Symbols \ {Addressed} : books[s] = last.pre.books[s]

\* the last request, served on the ladder of the symbol in upper case
ServedInUpperCase ==
    /\ last.op = "create_order" =>
           /\ OthersUntouched
           /\ books[Addressed] =
                  add_order(last.pre.books[Addressed], last.id, last.user_id, last.price,
                            last.qty, last.side, last.order_type).book
    /\ last.op = "cancel_order" =>
           /\ OthersUntouched
           /\ books[Addressed] \in
                  {last.pre.books[Addressed],
                   remove_order(last.pre.books[Addressed], last.order_id).book}
           /\ last.response = [status |-> "NO_CONTENT"] <=>
                  \E order \in get_order_by_id(last.pre.books[Addressed], last.order_id) :
                      order.user_id = last.user_id
    /\ last.op = "get_order" =>
           last.response =
               IF get_order_by_id(books[Addressed], last.order_id) = {} THEN OrderNotFound
               ELSE IF \E order \in get_order_by_id(books[Addressed], last.order_id) :
                          order.user_id # last.user_id
               THEN Forbidden
               ELSE Ok(books[Addressed].orders[last.order_id])
    /\ last.op = "get_order_book" =>
           last.response = Ok([bids |-> get_bids(books[Addressed]),
                               asks |-> get_asks(books[Addressed])])
    /\ last.op = "get_trades" =>
           last.response = Ok(get_recent_trades(books[Addressed], 100))

\* C28: submit, cancel, get_order, depth and recent_trades look the symbol
\* up in upper case, so that a symbol in any case addresses the one ladder
\* of its name; for a symbol the registry does not hold each of them fails
\* with SymbolNotFound, changes no ladder and no position and publishes
\* nothing.
C28_SymbolLookup ==
    last.op \in {"create_order", "cancel_order", "get_order", "get_order_book", "get_trades"} =>
        IF Addressed \in Symbols
        THEN ServedInUpperCase
        ELSE /\ last.response = SymbolNotFound
             /\ books = last.pre.books
             /\ positions = last.pre.positions
             /\ bus = last.pre.bus

\* the last leg, over the integers: what it converts, adds and multiplies
LegLeavesRange ==
    LET key == <<last.user_id, to_uppercase(last.symbol)>>
        delta == leg_delta(last.side, last.qty)
        old == StoredQty(last.pre, key)
    IN  \/ ~fits_i64(last.qty)
        \/ ~fits_i64(old + delta)
        \/ /\ key \in DOMAIN last.pre
           /\ (old > 0 /\ delta > 0) \/ (old < 0 /\ delta < 0)
           /\ \/ ~fits_i64(last.pre[key].average_price * old)
              \/ ~fits_i64(last.price * delta)
              \/ ~fits_i64(last.pre[key].average_price * old + last.price * delta)

\* C29: position arithmetic never wraps silently.  A leg whose conversion of
\* the unsigned quantity into the signed delta, whose old + delta or whose
\* old_avg * old + price * delta leaves the signed 64-bit range panics, and
\* the store keeps no wrapped quantity or average price: it is as it was.
C29_NoSilentWrap ==
    (last.op = "apply_leg" /\ LegLeavesRange) =>
        /\ last.panicked
        /\ positions = last.pre

\* C30: the book is never crossed.  After every submit and every cancel,
\* on every ladder whose two sides are both non-empty the best bid is below
\* the best ask.
C30_NeverCrossed ==
    \A s \in Symbols :
        \A bid \in best_bid(books[s]) : \A ask \in best_ask(books[s]) : bid < ask

\* A Limit order that traded against the best opposite level and rested its
\* remainder, with orders left on both sides.
C30_Witness ==
    /\ last.op = "submit" /\ last.order_type = "Limit"
    /\ last.trades # <<>>
    /\ last.id \in DOMAIN books[last.sym].orders
    /\ best_bid(books[last.sym]) # {}
    /\ best_ask(books[last.sym]) # {}

\* how often an id occurs in the queues of one side
CountIn(levels, order_id) ==
    SumOver([p \in DOMAIN levels |->
                Cardinality({i \in 1..Len(levels[p]) : levels[p][i] = order_id})],
            DOMAIN levels)

\* the ids the queues of one side hold
QueuedIds(levels) == UNION {{levels[p][i] : i \in 1..Len(levels[p])} : p \in DOMAIN levels}

\* C31: records and queue entries are in bijection.  In every reachable
\* ladder every record of the order map has its id exactly once in the
\* queues of the two sides taken together, and every queued id has a
\* record: get_order finds an order iff it contributes to depth.
C31_RecordsQueuesBijection ==
    \A s \in Symbols :
        /\ \A order_id \in DOMAIN books[s].orders :
              CountIn(books[s].bids, order_id) + CountIn(books[s].asks, order_id) = 1
        /\ QueuedIds(books[s].bids) \cup QueuedIds(books[s].asks) = DOMAIN books[s].orders

\* Two orders share a level, a third rests on the other side, after a
\* submit that traded.
C31_Witness ==
    /\ \E p \in DOMAIN books[LadderSym].bids : Len(books[LadderSym].bids[p]) >= 1
    /\ \E p \in DOMAIN books[LadderSym].asks : Len(books[LadderSym].asks[p]) >= 2
    /\ books[LadderSym].trades # <<>>

\* C32: every order resting in the ladder, after any sequence of submits
\* and cancels, is a Limit order with a remaining quantity above zero and
\* status Pending or PartiallyFilled; no record is Filled or Cancelled, has
\* nothing remaining, or is a Market order.
C32_RestingLaw ==
    \A s \in Symbols : \A order_id \in DOMAIN books[s].orders :
        /\ books[s].orders[order_id].order_type = "Limit"
        /\ books[s].orders[order_id].quantity > 0
        /\ books[s].orders[order_id].status \in {"Pending", "PartiallyFilled"}

\* A maker filled in part by an earlier order and a Limit taker resting the
\* remainder of its own partial fill are both in the ladder.
C32_Witness ==
    /\ \E order_id \in DOMAIN books[LadderSym].orders :
          /\ books[LadderSym].orders[order_id].status = "PartiallyFilled"
          /\ order_id # last.id
    /\ last.op = "submit" /\ last.order_type = "Limit" /\ last.trades # <<>>
    /\ last.id \in DOMAIN books[LadderSym].orders
    /\ books[LadderSym].orders[last.id].status = "PartiallyFilled"

\* the levels of the cancelled order's side but for its own entry
OnlyEntryGone(before, after, order) ==
    /\ DOMAIN after \subseteq DOMAIN before
    /\ \A p \in DOMAIN before \ {order.price} : p \in DOMAIN after /\ after[p] = before[p]
    /\ order.price \in DOMAIN before
    /\ QueueAt(after, order.price) =
          SelectSeq(before[order.price], LAMBDA oid : oid # order.id)
    /\ Len(QueueAt(after, order.price)) = Len(before[order.price]) - 1

\* C33: cancel touches only its target.  A successful cancel of an order
\* leaves every other record as it was, keeps the order of the other ids in
\* the queue of its level, leaves every other level of both sides and the
\* trade ring unchanged, and emits no trade.
C33_CancelTouchesOnlyTarget ==
    (last.op = "cancel" /\ last.removed # {}) =>
        \A order \in last.removed :
            /\ order = last.pre.orders[last.id]
            /\ books[last.sym].orders = MapRemove(last.pre.orders, last.id)
            /\ IF order.side = "Buy"
               THEN /\ OnlyEntryGone(last.pre.bids, books[last.sym].bids, order)
                    /\ books[last.sym].asks = last.pre.asks
               ELSE /\ OnlyEntryGone(last.pre.asks, books[last.sym].asks, order)
                    /\ books[last.sym].bids = last.pre.bids
            /\ books[last.sym].trades = last.pre.trades
            /\ \A i \in (last.mark + 1)..Len(bus) : bus[i].type # "Trade"

\* A cancel of an order that is not at the head of its level, on a ladder
\* with another level.
C33_Witness ==
    /\ last.op = "cancel" /\ last.removed # {}
    /\ \E order \in last.removed :
          LET queue == IF order.side = "Buy" THEN last.pre.bids[order.price]
                                             ELSE last.pre.asks[order.price]
          IN  Len(queue) >= 2 /\ queue[1] # order.id
    /\ Cardinality(DOMAIN last.pre.bids \cup DOMAIN last.pre.asks) >= 2

\* what the incoming order, the queues and the levels of a loop state add
\* up to: every iteration makes it smaller
LoopMeasure(m) ==
    m.order.quantity + Cardinality(DOMAIN m.opp)
        + SumOver([p \in DOMAIN m.opp |-> Len(m.opp[p])], DOMAIN m.opp)

\* an iteration executes a trade that reduces what is left of the incoming
\* order, or removes a maker, a queued id or an empty level
IterationProgress(m, n) ==
    \/ /\ Len(n.trades) = Len(m.trades) + 1
       /\ n.order.quantity < m.order.quantity
       /\ n.trades[Len(n.trades)].quantity = m.order.quantity - n.order.quantity
    \/ /\ n.trades = m.trades /\ n.order = m.order /\ n.orders = m.orders
       /\ LoopMeasure(n) < LoopMeasure(m)

\* the loop has stopped for one of its three reasons
StoppedFor(m) ==
    \/ m.order.quantity = 0
    \/ DOMAIN m.opp = {}
    \/ \E level_price \in best_opposite(m) : ~crosses(m.order, level_price)

\* C34: every submit terminates.  The matching loop, once entered, ends;
\* each of its iterations executes a trade that strictly reduces what is
\* left of the incoming order or removes a maker, a queued id or an empty
\* level; and it ends only when the incoming order is at zero, when no
\* level crosses or when the opposite side is exhausted, also on a ladder
\* that holds a queued id without a record or an empty level.
C34_SubmitTerminates ==
    /\ (pc[LoopTask] = "match_loop") ~> (pc[LoopTask] = "idle")
    /\ [][/\ (pc[LoopTask] = "match_loop" /\ pc'[LoopTask] = "match_loop") =>
                /\ IterationProgress(req[LoopTask].m, req'[LoopTask].m)
                /\ LoopMeasure(req'[LoopTask].m) < LoopMeasure(req[LoopTask].m)
          /\ (pc[LoopTask] = "match_loop" /\ pc'[LoopTask] = "idle") =>
                StoppedFor(req[LoopTask].m)]_vars

\* A submit whose loop dropped an empty level and an orphan id and executed
\* a trade has returned.
C34_Witness ==
    /\ last.op = "submit" /\ last.trades # <<>>
    /\ \E p \in DOMAIN last.pre.asks : last.pre.asks[p] = <<>>
    /\ \E p \in DOMAIN last.pre.asks :
          last.pre.asks[p] # <<>> /\ Head(last.pre.asks[p]) \in OrphanIds
    /\ books[LadderSym].asks = EmptyMap
    /\ pc[LoopTask] = "idle"

\* where a task is while it serves a create_order
CreatePcs == {"co_match", "co_rest", "co_send", "co_unlock",
              "co_maker", "co_maker_leg", "co_taker", "co_taker_leg"}

\* the stored quantities of a symbol, summed over the users
NetPosition(store, symbol) ==
    SumOver([user_id \in Users |-> StoredQty(store, <<user_id, symbol>>)], Users)

\* C35: positions are zero-sum per symbol.  From an empty store, whenever
\* no create_order is being served, the stored position quantities of a
\* symbol add up to zero over the users, self-trades included.
C35_ZeroSum ==
    (\A t \in Tasks : pc[t] \notin CreatePcs) =>
        \A s \in Symbols : NetPosition(positions, s) = 0

\* C36: once no request is in flight the position store is what applying,
\* for every trade in the order the ladder executed them, the maker's leg and
\* then the taker's leg gives, and every trade has had both its legs applied
\* once.
C36_PositionsFollowTradeOrder ==
    (\A t \in Tasks : pc[t] = "idle") =>
        /\ positions = ledger.store
        /\ applied.n = ledger.due

\* C37: with a database, after any sequence of requests the ladder that
\* hydration builds from the orders table holds exactly the orders resting in
\* the running ladder, with their remaining quantities, in the same queues.
C37_HydrationReproducesBook ==
    db.present =>
        \A s \in Symbols :
            /\ hydrated(db, s).bids = books[s].bids
            /\ hydrated(db, s).asks = books[s].asks
            /\ hydrated(db, s).orders = books[s].orders

\* the guard that the request of task t waits for is not in use: no other
\* task holds the guard of its symbol's ladder in a conflicting mode
OwnGuardFree(t) ==
    \A u \in Tasks \ {t} :
        pc[u] = "sy_held" /\ req[u].symbol = req[t].symbol =>
            req[u].guard = "read" /\ req[t].guard = "read"

\* the symbol that the locals of a handler name
SymbolOf(locals) == IF locals.op = "none" THEN {} ELSE {locals.symbol}

\* a step changes the ladder and the lock of the symbol it addresses only
OtherLaddersKept ==
    \A s \in Symbols :
        /\ books'[s] # books[s] => last' # last /\ last'.symbol = s
        /\ book_lock'[s] # book_lock[s] =>
               \E t \in Tasks : pc[t] # pc'[t] /\ s \in SymbolOf(req[t]) \cup SymbolOf(req'[t])

\* the trades of a submit pair the new order with orders that rested in the
\* ladder of its symbol, and in no other ladder
TradesWithinLadder ==
    last' # last /\ last'.op = "create_order" =>
        \A i \in 1..Len(last'.trades) :
            /\ last'.trades[i].taker_order_id = last'.id
            /\ last'.trades[i].maker_order_id \in DOMAIN books[last'.symbol].orders
            /\ \A s \in Symbols \ {last'.symbol} :
                   last'.trades[i].maker_order_id \notin DOMAIN books[s].orders

\* C38: a submit or a cancel on one symbol leaves the queues, the records and
\* the trade ring of every other symbol's ladder as they were and waits for
\* no lock but its own ladder's; every trade pairs orders of one ladder.
C38_LaddersIndependent ==
    /\ [](\A t \in Tasks : pc[t] = "sy_wait" /\ OwnGuardFree(t) => ENABLED SyAcquire(t))
    /\ [][OtherLaddersKept /\ TradesWithinLadder]_vars

\* one task holds the guard of one ladder while the other holds the guard of
\* the other, and the last order, a sell that the bids of the other ladder
\* would have filled, rests unmatched
C38_Witness ==
    /\ \E t, u \in Tasks :
          /\ pc[t] = "sy_held" /\ pc[u] = "sy_held"
          /\ req[t].symbol # req[u].symbol
    /\ last.op = "create_order"
    /\ last.trades = <<>>
    /\ last.order.side = "Sell"
    /\ last.id \in DOMAIN books[last.symbol].orders
    /\ \E s \in Symbols \ {last.symbol} : DOMAIN books[s].bids # {}

\* what the successful cancels of an order took off the ladder, and how many
\* they were
CancelsOf(id) == SelectSeq(ledger.cancels, LAMBDA c : c.order_id = id)
CancelledOf(id) ==
    SumSeq([i \in 1..Len(CancelsOf(id)) |-> CancelsOf(id)[i].quantity])
FilledOf(id) == IF id \in DOMAIN ledger.filled THEN ledger.filled[id] ELSE 0
RestingOf(id) ==
    IF id \in DOMAIN books[LadderSym].orders THEN books[LadderSym].orders[id].quantity ELSE 0

\* a removal step of cancel_order: it succeeds exactly where the order rests
\* at that moment, then for its owner and with the record gone; where the
\* order does not rest it answers OrderNotFound and the ladder is as it was
RemovalIsSafe ==
    \A t \in Tasks :
        pc[t] = "rc_remove" /\ pc'[t] = "idle" =>
            LET found == get_order_by_id(books[req[t].symbol], req[t].order_id) IN
            IF found = {}
            THEN /\ last'.response = OrderNotFound
                 /\ books' = books
            ELSE /\ last'.response = [status |-> "NO_CONTENT"]
                 /\ last'.removed = found
                 /\ \A order \in found : order.user_id = req[t].user_id
                 /\ req[t].order_id \notin DOMAIN books'[req[t].symbol].orders

Touched == {last.trades[i].maker_user_id : i \in 1..Len(last.trades)}
               \cup {last.trades[i].taker_user_id : i \in 1..Len(last.trades)}

\* C40: with a database, after every completed create_order the position
\* rows of every user of its trades are that user's entries of the position
\* store: GET /positions answers from the rows what the store holds, and the
\* store that a restart builds from the rows holds no position that was
\* closed.
C40_PersistedPositionsMirrorStore ==
    db.present /\ last.op = "create_order" /\ last.response.status = "OK" =>
        \A u \in Touched :
            /\ list_positions_for_user(db, u, {}) = get_positions(positions, u, {})
            /\ \A s \in Symbols :
                   <<u, s>> \in DOMAIN hydrated_positions(db) => <<u, s>> \in DOMAIN positions

====
